---- MODULE Spec2Model ----
(***************************************************************************)
(* Verification model of the agent turn loop of Eitherway                  *)
(* (packages/runtime/src/agent.ts): Agent.processRequest, the              *)
(* read-before-write enforcer (injectReadBeforeWriteBlocks) and the        *)
(* conversation history validator (validateConversationHistory).           *)
(***************************************************************************)
EXTENDS Integers, Sequences, FiniteSets, TLC

VARIABLES
    history,                 \* Agent.conversationHistory
    pc,                      \* position of processRequest (or of the enforcer harness)
    turnCount,               \* let turnCount
    modelCalls,              \* number of ModelClient.sendMessage calls of the current request
    validatedHistory,        \* the history the last validateConversationHistory run accepted
    rawContent,              \* response.content as the model returned it
    stopReason,              \* response.stopReason
    responseContent,         \* response.content after the enforcer ran (blocks are mutated in place)
    enforcedAssistantBlocks, \* const enforcedAssistantBlocks
    toolUses,                \* const toolUses
    toolResults,             \* let toolResults
    started,                 \* how many entries of toolUses the for-loop has handed to the runner
    inFlight,                \* indices of toolUses whose execution has started and not returned
    execLog,                 \* ids of this turn's invocations in the order their execution returned
    finalResponse,           \* let finalResponse
    hasExecutedTools,        \* let hasExecutedTools
    verifierRuns,            \* number of runVerification calls of the current request
    dryRun,                  \* options.dryRun
    earlierPaths,            \* paths read or created in earlier turns of the current request
    prevTurnTools,           \* number of executable invocations of the previous turn
    requests,                \* number of processRequest calls made so far
    thrown,                  \* the error raised in processRequest (by the validator or the model client), if any
    warned,                  \* indices of the messages the last validation logged a warning for
    events,                  \* callbacks fired by the current request, in order
    executorThrew,           \* ids of this turn's invocations whose executor threw
    fileOpsThisRequest,      \* const fileOpsThisRequest (path -> operation, as pairs)
    filesCreatedThisRequest, \* const filesCreatedThisRequest
    newFileOpsThisTurn,      \* const newFileOpsThisTurn (path -> operation, as pairs)
    runs,                    \* the processRequest runs compared or in flight together, each with its locals
    context,                 \* ToolRunner.context (the ExecutionContext handed to the executors)
    executorLog,             \* the Web3 executor calls made so far and the branch each took
    previousMessages         \* the rows messagesRepo.findRecentBySession returned

vars == <<history, pc, turnCount, modelCalls, validatedHistory, rawContent,
          stopReason, responseContent, enforcedAssistantBlocks, toolUses,
          toolResults, started, inFlight, execLog, finalResponse,
          hasExecutedTools, verifierRuns, dryRun, earlierPaths, prevTurnTools,
          requests, thrown, warned, events, executorThrew, fileOpsThisRequest,
          filesCreatedThisRequest, newFileOpsThisTurn, runs, context,
          executorLog, previousMessages>>

----------------------------------------------------------------------------
(* Bounds of the model *)

MaxLen == 3            \* longest block sequence handed to the enforcer harness
MaxRequests == 2       \* processRequest calls per behaviour
MAX_AGENT_TURNS == 3   \* turn ceiling; its value is set in constants.ts (imported at agent.ts:11), taken small here

----------------------------------------------------------------------------
(* JavaScript values of the fields the code inspects *)

Undefined == [t |-> "undefined", s |-> ""]
Str(x) == [t |-> "string", s |-> x]
Num7 == [t |-> "number", s |-> "7"]

\* typeof path === 'string' && path.length > 0
IsNonEmptyString(v) == v.t = "string" /\ v.s # ""

\* JavaScript truthiness of a value (used by !blk.input?.needle)
Truthy(v) == ~(v.t = "undefined" \/ (v.t = "string" /\ v.s = ""))

READ_TOOL == "either-view"
WRITE_TOOLS == {"either-line-replace", "either-write"}
EnforcerWarningText == "No needle provided; injected a read to reduce risk."

\* tool input: the fields of blk.input the loop and the enforcer look at
Input(path, needle) == [path |-> path, needle |-> needle, _enforcerWarning |-> Undefined]
NoInput == Input(Undefined, Undefined)

\* a content block; fields a block type does not carry are blank
Block(type, id, name, input, tool_use_id, is_error, text) ==
    [type |-> type, id |-> id, name |-> name, input |-> input,
     tool_use_id |-> tool_use_id, is_error |-> is_error, text |-> text]

TextBlock(text) == Block("text", "", "", NoInput, "", FALSE, text)
ToolUse(id, name, input) == Block("tool_use", id, name, input, "", FALSE, "")
ServerToolUse(id) == Block("server_tool_use", id, "web_search", NoInput, "", FALSE, "")
WebSearchToolResult(id) == Block("web_search_tool_result", "", "", NoInput, id, FALSE, "")
ToolResult(id, is_error) == Block("tool_result", "", "", NoInput, id, is_error, "")

\* ids the model issues, by position in the response
ToolId(i) == "toolu_" \o ToString(i)

\* enforcer-view-<Date.now()>-<Math.random()...>: r is the random draw
InjectedId(r) == "enforcer-view-" \o ToString(r)
Draws == {1, 2}
DrawSlots == 2         \* independent draws per enforcer call (one per path that can need a read)
DrawSeqs == [1..DrawSlots -> Draws]
\* the draw of the k-th injected id
DrawAt(rnd, k) == rnd[((k - 1) % DrawSlots) + 1]
\* in the turn loop the draws of one call are taken pairwise different as far as
\* Draws allows (the id carries Date.now() and eight random base-36 digits)
TurnDraws == {[k \in 1..DrawSlots |-> ((k - 1) % Cardinality(Draws)) + 1]}
EnforcerIds == {InjectedId(r) : r \in Draws}

----------------------------------------------------------------------------
(* Read-before-write enforcer: Agent.injectReadBeforeWriteBlocks *)

\* variant: unshift instead of push
pushAndCollect_Prepend(acc, blk) ==
    [acc EXCEPT !.out = <<blk>> \o @,
                !.toolUsesCollected =
                    IF blk.type = "tool_use"
                    THEN <<ToolUse(blk.id, blk.name, blk.input)>> \o @
                    ELSE @]

\* const pushAndCollect = (blk) => { out.push(blk); if tool_use: collect }
pushAndCollect(acc, blk) ==
    [acc EXCEPT !.out = Append(@, blk),
                !.toolUsesCollected =
                    IF blk.type = "tool_use"
                    THEN Append(@, ToolUse(blk.id, blk.name, blk.input))
                    ELSE @]

\* variant: the set of read paths lives across turns
seenReadForPath0_Carried(carried) == carried

\* const seenReadForPath = new Set<string>(): nothing is carried over from
\* earlier calls, whatever was read or created before
seenReadForPath0(carried) == {}

\* variant: the membership test inverted
NeedsInjectedRead_Inverted(path, seen) == IsNonEmptyString(path) /\ path.s \in seen

\* typeof path === 'string' && path.length > 0 && !seenReadForPath.has(path)
NeedsInjectedRead(path, seen) == IsNonEmptyString(path) /\ path.s \notin seen

\* const injected = { type: 'tool_use', id: injectedId, name: READ_TOOL, input: { path } }
InjectedRead(r, path) == ToolUse(InjectedId(r), READ_TOOL, Input(path, Undefined))

\* variant: the spread of blk.input forgotten
AnnotateMissingNeedle_NoSpread(blk) ==
    IF ~Truthy(blk.input.needle)
    THEN [blk EXCEPT !.input = [NoInput EXCEPT !._enforcerWarning = Str(EnforcerWarningText)]]
    ELSE blk

\* if (!blk.input?.needle) blk.input = { ...blk.input, _enforcerWarning: ... }
AnnotateMissingNeedle(blk) ==
    IF ~Truthy(blk.input.needle)
    THEN [blk EXCEPT !.input._enforcerWarning = Str(EnforcerWarningText)]
    ELSE blk

\* variant: an explicit read is not recorded
ExplicitRead_NotRecorded(acc, blk) ==
    pushAndCollect([acc EXCEPT !.blocks = Append(@, blk)], blk)

\* branch for blk.name === READ_TOOL
ExplicitRead(acc, blk) ==
    LET path == blk.input.path
        acc1 == IF IsNonEmptyString(path)
                THEN [acc EXCEPT !.seenReadForPath = @ \cup {path.s}]
                ELSE acc
    IN  pushAndCollect([acc1 EXCEPT !.blocks = Append(@, blk)], blk)

\* branch for blk.name === 'either-line-replace'
EditBranch(acc, blk, rnd) ==
    LET path == blk.input.path
        inject == NeedsInjectedRead(path, acc.seenReadForPath)
        acc1 == IF inject
                THEN [pushAndCollect(acc, InjectedRead(DrawAt(rnd, acc.injections + 1), path))
                        EXCEPT !.seenReadForPath = @ \cup {path.s},
                               !.injections = @ + 1]
                ELSE acc
        blk1 == AnnotateMissingNeedle(blk)
    IN  pushAndCollect([acc1 EXCEPT !.blocks = Append(@, blk1)], blk1)

\* variant: creates are treated like edits
WriteBranch_AsEdit(acc, blk, rnd) == EditBranch(acc, blk, rnd)

\* branch for Agent.WRITE_TOOLS.has(blk.name) (either-write gets here)
WriteBranch(acc, blk, rnd) ==
    pushAndCollect([acc EXCEPT !.blocks = Append(@, blk)], blk)

\* passthrough others
Passthrough(acc, blk) ==
    pushAndCollect([acc EXCEPT !.blocks = Append(@, blk)], blk)

\* body of for (const blk of contentBlocks)
EnforceBlock(acc, blk, rnd) ==
    IF blk.type = "tool_use" /\ blk.name = READ_TOOL THEN ExplicitRead(acc, blk)
    ELSE IF blk.type = "tool_use" /\ blk.name = "either-line-replace"
         THEN EditBranch(acc, blk, rnd)
    ELSE IF blk.type = "tool_use" /\ blk.name \in WRITE_TOOLS
         THEN WriteBranch(acc, blk, rnd)
    ELSE Passthrough(acc, blk)

RECURSIVE EnforceFrom(_, _, _, _)
EnforceFrom(contentBlocks, i, acc, rnd) ==
    IF i > Len(contentBlocks) THEN acc
    ELSE EnforceFrom(contentBlocks, i + 1, EnforceBlock(acc, contentBlocks[i], rnd), rnd)

\* rnd[k] is the random draw of the k-th injected id; carried is what earlier
\* turns read or created; the result also holds the caller's array as the
\* in-place assignment to blk.input leaves it (responseContent)
injectReadBeforeWriteBlocks(contentBlocks, rnd, carried) ==
    LET acc == EnforceFrom(contentBlocks, 1,
                   [out |-> <<>>, toolUsesCollected |-> <<>>,
                    seenReadForPath |-> seenReadForPath0(carried),
                    blocks |-> <<>>, injections |-> 0], rnd)
    IN  [contentBlocks |-> acc.out,
         toolUses |-> SelectSeq(acc.toolUsesCollected, LAMBDA b : b.type = "tool_use"),
         responseContent |-> acc.blocks]

----------------------------------------------------------------------------
(* Conversation history validator: Agent.validateConversationHistory *)

Message(role, content) ==
    [role |-> role, isArray |-> TRUE, typeofContent |-> "object", content |-> content]

\* a message whose content is a bare string instead of a list of blocks
StringMessage(role) ==
    [role |-> role, isArray |-> FALSE, typeofContent |-> "string", content |-> <<>>]

\* a message whose content is some other non-array value; type is its typeof
NonArrayMessage(role, type) ==
    [role |-> role, isArray |-> FALSE, typeofContent |-> type, content |-> <<>>]

\* variant: only the newest message is checked
MessageViolation_LastOnly(h, idx) ==
    LET msg == h[idx] IN
    IF idx # Len(h) THEN "none"
    ELSE IF ~msg.isArray THEN "invalid content format"
    ELSE IF Len(msg.content) = 0 /\ msg.role # "assistant" THEN "empty content array"
    ELSE "none"

\* variant: the final message is exempted whatever its role
MessageViolation_AnyRole(h, idx) ==
    LET msg == h[idx] IN
    IF ~msg.isArray THEN "invalid content format"
    ELSE IF Len(msg.content) = 0 /\ idx # Len(h) THEN "empty content array"
    ELSE "none"

\* the two throwing checks on message idx (1-based here, 0-based in the code)
MessageViolation(h, idx) ==
    LET msg == h[idx] IN
    IF ~msg.isArray THEN "invalid content format"
    ELSE IF Len(msg.content) = 0 /\ ~(idx = Len(h) /\ msg.role = "assistant")
         THEN "empty content array"
    ELSE "none"

\* server_tool_use blocks of msg with no web_search_tool_result of the same id
UnpairedServerToolUses(msg) ==
    IF msg.role = "assistant" /\ msg.isArray
    THEN {i \in 1..Len(msg.content) :
            /\ msg.content[i].type = "server_tool_use"
            /\ ~\E j \in 1..Len(msg.content) :
                  /\ msg.content[j].type = "web_search_tool_result"
                  /\ msg.content[j].tool_use_id = msg.content[i].id}
    ELSE {}

\* what the thrown Error's message carries: the index, which check failed and,
\* for the first check only, typeof msg.content
ValidationError(idx, reason, got) ==
    [kind |-> "validation", idx |-> idx, reason |-> reason, got |-> got]

NoError == [kind |-> "none", idx |-> -1, reason |-> "none", got |-> ""]

\* variant: the whole history is scanned and the last violation is reported
FirstViolation_Last(bad) == CHOOSE idx \in bad : \A other \in bad : idx >= other

\* forEach visits the messages in index order and the throw ends it
FirstViolation(bad) == CHOOSE idx \in bad : \A other \in bad : idx <= other

\* variant: the commented-out throw restored
UnpairedIsFatal_Throw == TRUE

\* an unpaired server_tool_use is only logged (the throw is commented out)
UnpairedIsFatal == FALSE

\* forEach throws at the first violating message
validateConversationHistory(h) ==
    LET bad == {idx \in 1..Len(h) :
                  \/ MessageViolation(h, idx) # "none"
                  \/ UnpairedIsFatal /\ UnpairedServerToolUses(h[idx]) # {}}
        first == FirstViolation(bad)
        reason == IF MessageViolation(h, first) # "none"
                  THEN MessageViolation(h, first)
                  ELSE "server_tool_use without web_search_tool_result"
    IN  IF bad = {}
        THEN [threw |-> FALSE, idx |-> -1, reason |-> "none", got |-> "",
              warned |-> {idx - 1 : idx \in {i \in 1..Len(h) : UnpairedServerToolUses(h[i]) # {}}}]
        ELSE [threw |-> TRUE, idx |-> first - 1, reason |-> reason,
              got |-> IF reason = "invalid content format"
                      THEN h[first].typeofContent ELSE "",
              warned |-> {idx - 1 : idx \in {i \in 1..first :
                              /\ MessageViolation(h, i) = "none"
                              /\ UnpairedServerToolUses(h[i]) # {}}}]

----------------------------------------------------------------------------
(* Inputs of the turn loop *)

MaxHistory == 2        \* a request starts only on a history of at most this length
MaxToolErrors == 1     \* tool executions that fail per behaviour

PathA == Str("a")
PathB == Str("b")

\* one model response: blocks get their ids from their position
ViewAt(i, path) == ToolUse(ToolId(i), READ_TOOL, Input(path, Undefined))
EditAt(i, path, needle) == ToolUse(ToolId(i), "either-line-replace", Input(path, needle))
WriteAt(i, path) == ToolUse(ToolId(i), "either-write", Input(path, Undefined))
SearchAt(i) == ToolUse(ToolId(i), "either-search-files", NoInput)
ServerAt(i) == ServerToolUse("srvtoolu_" \o ToString(i))

ResponseMenu ==
    { <<>>,
      <<TextBlock("t")>>,
      <<ServerAt(1)>>,
      <<TextBlock("t"), WriteAt(2, PathA)>>,
      <<EditAt(1, PathA, Undefined)>>,
      <<ViewAt(1, PathA), EditAt(2, PathA, Str("x"))>> }

StopReasons == {"end_turn", "tool_use"}

\* the responses the model client returns: every content of the menu, with
\* either stop reason for the tool-free ones and for the one that mixes text and
\* a tool, with tool_use for the lone edit and end_turn for the read-then-edit
Responses ==
    {r \in [content : ResponseMenu, stopReason : StopReasons] :
        /\ r.content = <<EditAt(1, PathA, Undefined)>> => r.stopReason = "tool_use"
        /\ r.content = <<ViewAt(1, PathA), EditAt(2, PathA, Str("x"))>>
              => r.stopReason = "end_turn"}

UserText == <<TextBlock("prompt")>>

LoadableHistories ==
    { <<Message("user", UserText), StringMessage("assistant")>>,
      <<Message("user", <<>>), Message("assistant", <<TextBlock("t")>>)>>,
      <<Message("user", UserText), Message("assistant", <<>>)>>,
      <<Message("user", UserText), Message("assistant", <<ServerAt(1)>>)>> }

----------------------------------------------------------------------------
(* Turn loop: Agent.processRequest *)

\* response.content.filter(type === 'text').map(text)  (joined by '\n')
textBlocks(content) ==
    LET texts == SelectSeq(content, LAMBDA c : c.type = "text")
    IN  [i \in 1..Len(texts) |-> texts[i].text]

VerificationSummary == "<verification summary>"

\* variant: all remaining invocations are started together
NextBatch_All(n, s) == (s + 1)..n

\* the invocations the for-loop hands to the runner next: one, awaited
NextBatch(n, s) == {s + 1}

\* variant: the loop is left when the model did not say end_turn
AfterToolResults_Break(reason) == IF reason = "end_turn" THEN "loop" ELSE "done"

\* if (response.stopReason === 'end_turn') continue;  and the end of the body
AfterToolResults(reason) == IF reason = "end_turn" THEN "loop" ELSE "loop"

\* toolUses.map(tu => ({ type: 'tool_result', tool_use_id: tu.id, content: '[DRY RUN] ...' }))
DryRunResults(tus) ==
    [i \in 1..Len(tus) |->
        [ToolResult(tus[i].id, FALSE) EXCEPT
            !.text = "[DRY RUN] Would execute: " \o tus[i].name]]

\* paths an earlier turn read or created
PathsReadOrCreated(tus) ==
    {tus[i].input.path.s : i \in {j \in 1..Len(tus) :
        /\ tus[j].name \in {READ_TOOL, "either-write"}
        /\ IsNonEmptyString(tus[j].input.path)}}

NoResponse == <<>>

\* the callbacks of StreamingCallbacks fired by the tool loop and at the end of
\* the request (all supplied), as <<callback, first argument, second argument>>;
\* the callbacks driven by the text stream are not recorded
OnPhase(phase) == <<"onPhase", phase, "">>
OnComplete == <<"onComplete", "", "">>
OnFileOperation(state, filePath) == <<"onFileOperation", state, filePath.s>>
OnToolStart(toolUse) == <<"onToolStart", toolUse.name, toolUse.id>>
OnToolEnd(toolUse) == <<"onToolEnd", toolUse.name, toolUse.id>>

\* after the loop: onPhase('completed'), onComplete(usage), return finalResponse
Completion == <<OnPhase("completed"), OnComplete>>

\* variant: an empty response is stored as it came
AssistantMessage_StoreEmpty(blocks) == Message("assistant", blocks)

\* if (enforcedAssistantBlocks.length > 0) push them, else push the placeholder
AssistantMessage(blocks) ==
    IF Len(blocks) > 0
    THEN Message("assistant", blocks)
    ELSE Message("assistant", <<TextBlock("...")>>)

\* variant: the dry-run switch ignored
UsesExecutors_Always(dry) == TRUE

\* if (this.options.dryRun) { synthesize } else { run the executors }
UsesExecutors(dry) == ~dry

\* the rejection of sendMessage
ModelError == [NoError EXCEPT !.kind = "model"]

\* variant: the rejection is swallowed and the loop goes on
OnModelError_Swallow == "loop"

\* await this.modelClient.sendMessage(...) sits in no try block
OnModelError == "aborted"

\* variant: an error result ends the request
OnToolResult_AbortOnError(result) ==
    IF \E i \in 1..Len(result) : result[i].is_error THEN "aborted" ELSE "executing"

\* toolResults.push(...result): the result is not inspected, the for-loop goes on
OnToolResult(result) == "executing"

\* if (hasExecutedTools && !this.options.dryRun)
ShouldVerify(executed, dry) == executed /\ ~dry

\* a variant that tracks every tool that has a path, reads included
IsFileOperation_AnyTool(toolUse) == Truthy(toolUse.input.path)

\* filePath && (name === 'either-write' || name === 'either-line-replace')
IsFileOperation(toolUse) ==
    Truthy(toolUse.input.path) /\ toolUse.name \in {"either-write", "either-line-replace"}

\* let operation: 'create' | 'edit'
OperationOf(toolUse, created) ==
    IF toolUse.input.path \in created THEN "edit"
    ELSE IF toolUse.name = "either-write" THEN "create"
    ELSE "edit"

\* keys of a Map kept as a set of <<key, value>> pairs
Keys(map) == {kv[1] : kv \in map}

\* the for-loop body before the await: track the file operation, fire the
\* starting events
BeforeExecution(toolUse, fileOps, created) ==
    LET filePath == toolUse.input.path
        operation == OperationOf(toolUse, created)
        isNew == IsFileOperation(toolUse) /\ filePath \notin Keys(fileOps)
    IN  [created |-> IF IsFileOperation(toolUse) /\ filePath \notin created
                        /\ toolUse.name = "either-write"
                     THEN created \cup {filePath} ELSE created,
         newOps |-> IF isNew THEN {<<filePath, operation>>} ELSE {},
         events |-> (IF isNew
                     THEN <<OnFileOperation(IF operation = "create" THEN "creating"
                                            ELSE "editing", filePath)>>
                     ELSE <<>>)
                    \o (IF ~Truthy(filePath) THEN <<OnToolStart(toolUse)>> ELSE <<>>)]

\* the for-loop body after the await: the finished events
AfterExecution(toolUse, newOps) ==
    LET filePath == toolUse.input.path IN
    (IF Truthy(filePath) /\ filePath \in Keys(newOps)
     THEN <<OnFileOperation(IF <<filePath, "create">> \in newOps THEN "created"
                            ELSE "edited", filePath)>>
     ELSE <<>>)
    \o (IF ~Truthy(filePath) THEN <<OnToolEnd(toolUse)>> ELSE <<>>)

\* the ExecutionContext of a new ToolRunner: no database context yet
NoContext ==
    [fileStore |-> Undefined, appId |-> Undefined, sessionId |-> Undefined,
     db |-> Undefined]

\* no second run, no database context, no Web3 executor call
Elsewhere ==
    runs = <<>> /\ context = NoContext /\ executorLog = <<>> /\ previousMessages = <<>>

LoopInit ==
    /\ history = <<>>
    /\ pc = "idle"
    /\ turnCount = 0
    /\ modelCalls = 0
    /\ validatedHistory = <<>>
    /\ rawContent = NoResponse
    /\ stopReason = ""
    /\ responseContent = NoResponse
    /\ enforcedAssistantBlocks = <<>>
    /\ toolUses = <<>>
    /\ toolResults = <<>>
    /\ started = 0
    /\ inFlight = {}
    /\ execLog = <<>>
    /\ finalResponse = <<>>
    /\ hasExecutedTools = FALSE
    /\ verifierRuns = 0
    /\ earlierPaths = {}
    /\ prevTurnTools = 0
    /\ requests = 0
    /\ thrown = NoError
    /\ warned = {}
    /\ events = <<>>
    /\ executorThrew = {}
    /\ fileOpsThisRequest = {}
    /\ filesCreatedThisRequest = {}
    /\ newFileOpsThisTurn = {}
    /\ Elsewhere

Init ==
    /\ LoopInit
    /\ dryRun \in BOOLEAN

turnLocals == <<rawContent, stopReason, responseContent, enforcedAssistantBlocks,
                toolUses, toolResults, started, inFlight>>

fileOpLocals == <<fileOpsThisRequest, filesCreatedThisRequest, newFileOpsThisTurn>>

\* what the turn loop of one Agent leaves alone
elsewhere == <<runs, context, executorLog, previousMessages>>

\* variant: the message takes the place of the history
PushToHistory_Replacing(h, message) == <<message>>

\* variant: the message is not stored
PushToHistory_Dropping(h, message) == h

\* variant: the message is stored twice
PushToHistory_Twice(h, message) == Append(Append(h, message), message)

\* this.conversationHistory.push(message)
PushToHistory(h, message) == Append(h, message)

\* Agent.loadConversationHistory
LoadConversationHistory ==
    /\ pc = "idle" /\ requests = 0 /\ history = <<>>
    /\ \E messages \in LoadableHistories : history' = messages
    /\ UNCHANGED <<pc, turnCount, modelCalls, validatedHistory, turnLocals, execLog,
                   finalResponse, hasExecutedTools, verifierRuns, dryRun,
                   earlierPaths, prevTurnTools, requests, thrown, warned, events,
                   executorThrew, fileOpLocals, elsewhere>>

\* Agent.reset
Reset ==
    /\ pc \in {"done", "aborted"} /\ history # <<>>
    /\ history' = <<>>
    /\ pc' = "idle"
    /\ UNCHANGED <<turnCount, modelCalls, validatedHistory, turnLocals, execLog,
                   finalResponse, hasExecutedTools, verifierRuns, dryRun,
                   earlierPaths, prevTurnTools, requests, thrown, warned, events,
                   executorThrew, fileOpLocals, elsewhere>>

\* processRequest up to the while: push the user message, initialise the locals
Start(longest) ==
    /\ pc \in {"idle", "done", "aborted"}
    /\ requests < MaxRequests
    /\ Len(history) <= longest
    /\ requests' = requests + 1
    /\ history' = PushToHistory(history, Message("user", UserText))
    /\ turnCount' = 0
    /\ modelCalls' = 0
    /\ finalResponse' = <<>>
    /\ hasExecutedTools' = FALSE
    /\ verifierRuns' = 0
    /\ validatedHistory' = <<>>
    /\ rawContent' = NoResponse
    /\ stopReason' = ""
    /\ responseContent' = NoResponse
    /\ enforcedAssistantBlocks' = <<>>
    /\ toolUses' = <<>>
    /\ toolResults' = <<>>
    /\ started' = 0
    /\ inFlight' = {}
    /\ execLog' = <<>>
    /\ earlierPaths' = {}
    /\ prevTurnTools' = 0
    /\ thrown' = NoError
    /\ warned' = {}
    /\ events' = <<>>
    /\ executorThrew' = {}
    /\ fileOpsThisRequest' = {}
    /\ filesCreatedThisRequest' = {}
    /\ newFileOpsThisTurn' = {}
    /\ pc' = "loop"
    /\ UNCHANGED <<dryRun, elsewhere>>

StartRequest == Start(MaxHistory)

\* variant: no ceiling
WithinTurnLimit_Unbounded(n) == TRUE

\* variant: off by one
WithinTurnLimit_Inclusive(n) == n <= MAX_AGENT_TURNS

\* while (turnCount < MAX_AGENT_TURNS)
WithinTurnLimit(n) == n < MAX_AGENT_TURNS

\* while (...) { turnCount++; this.validateConversationHistory();
BeginTurn ==
    /\ pc = "loop"
    /\ WithinTurnLimit(turnCount)
    /\ turnCount' = turnCount + 1
    /\ LET v == validateConversationHistory(history) IN
         /\ warned' = v.warned
         /\ IF v.threw
            THEN /\ pc' = "aborted"
                 /\ thrown' = ValidationError(v.idx, v.reason, v.got)
                 /\ UNCHANGED validatedHistory
            ELSE /\ pc' = "validated"
                 /\ validatedHistory' = history
                 /\ UNCHANGED thrown
    /\ UNCHANGED <<history, modelCalls, turnLocals, execLog, finalResponse,
                   hasExecutedTools, verifierRuns, dryRun, earlierPaths,
                   prevTurnTools, requests, events, executorThrew, fileOpLocals, elsewhere>>

\* the while condition fails: fall out of the loop, endTranscript, the
\* completion callbacks, return finalResponse
ExitAtCeiling ==
    /\ pc = "loop"
    /\ ~WithinTurnLimit(turnCount)
    /\ pc' = "done"
    /\ events' = events \o Completion
    /\ UNCHANGED <<history, turnCount, modelCalls, validatedHistory, turnLocals,
                   execLog, finalResponse, hasExecutedTools, verifierRuns, dryRun,
                   earlierPaths, prevTurnTools, requests, thrown, warned,
                   executorThrew, fileOpLocals, elsewhere>>

\* const response = await this.modelClient.sendMessage(this.conversationHistory, ...)
SendMessage ==
    /\ pc = "validated"
    /\ modelCalls' = modelCalls + 1
    /\ pc' = "awaiting"
    /\ UNCHANGED <<history, turnCount, validatedHistory, turnLocals, execLog,
                   finalResponse, hasExecutedTools, verifierRuns, dryRun,
                   earlierPaths, prevTurnTools, requests, thrown, warned, events,
                   executorThrew, fileOpLocals, elsewhere>>

\* sendMessage rejects: nothing in processRequest catches it
ModelFails ==
    /\ pc = "awaiting"
    /\ pc' = OnModelError
    /\ thrown' = ModelError
    /\ UNCHANGED <<history, turnCount, modelCalls, validatedHistory, turnLocals,
                   execLog, finalResponse, hasExecutedTools, verifierRuns, dryRun,
                   earlierPaths, prevTurnTools, requests, warned, events,
                   executorThrew, fileOpLocals, elsewhere>>

\* the response arrives: enforcer, assistant message, then either the final
\* branch (toolUses.length === 0 ... break, and what follows the loop) or the
\* start of tool execution
Receive(responses) ==
    /\ pc = "awaiting"
    /\ \E response \in responses, rnd \in TurnDraws :
         LET content == response.content
             reason == response.stopReason
             e == injectReadBeforeWriteBlocks(content, rnd, earlierPaths) IN
         /\ rawContent' = content
         /\ stopReason' = reason
         /\ responseContent' = e.responseContent
         /\ enforcedAssistantBlocks' = e.contentBlocks
         /\ toolUses' = e.toolUses
         /\ history' = PushToHistory(history, AssistantMessage(e.contentBlocks))
         /\ IF Len(e.toolUses) = 0
            THEN /\ IF ShouldVerify(hasExecutedTools, dryRun)
                    THEN /\ verifierRuns' = verifierRuns + 1
                         /\ finalResponse' = Append(textBlocks(content), VerificationSummary)
                    ELSE /\ verifierRuns' = verifierRuns
                         /\ finalResponse' = textBlocks(content)
                 /\ pc' = "done"
                 /\ events' = events \o Completion
                 /\ toolResults' = <<>> /\ started' = 0
                 /\ UNCHANGED hasExecutedTools
            ELSE /\ hasExecutedTools' = TRUE
                 /\ pc' = "executing"
                 /\ events' = Append(events, OnPhase("code-writing"))
                 /\ IF UsesExecutors(dryRun)
                    THEN toolResults' = <<>> /\ started' = 0
                    ELSE toolResults' = DryRunResults(e.toolUses) /\ started' = Len(e.toolUses)
                 /\ UNCHANGED <<verifierRuns, finalResponse>>
    /\ execLog' = <<>>
    /\ executorThrew' = {}
    /\ newFileOpsThisTurn' = {}
    /\ UNCHANGED <<turnCount, modelCalls, validatedHistory, inFlight, dryRun,
                   earlierPaths, prevTurnTools, requests, thrown, warned,
                   fileOpsThisRequest, filesCreatedThisRequest, elsewhere>>

ReceiveResponse == Receive(Responses)

\* for (const toolUse of toolUses) { ... this.toolRunner.executeTools([toolUse])
StartTool ==
    /\ pc = "executing"
    /\ inFlight = {}
    /\ started < Len(toolUses)
    /\ inFlight' = NextBatch(Len(toolUses), started)
    /\ started' = started + Cardinality(NextBatch(Len(toolUses), started))
    /\ LET b == BeforeExecution(toolUses[started + 1], fileOpsThisRequest,
                                filesCreatedThisRequest) IN
         /\ filesCreatedThisRequest' = b.created
         /\ fileOpsThisRequest' = fileOpsThisRequest \cup b.newOps
         /\ newFileOpsThisTurn' = newFileOpsThisTurn \cup b.newOps
         /\ events' = events \o b.events
    /\ UNCHANGED <<history, pc, turnCount, modelCalls, validatedHistory, rawContent,
                   stopReason, responseContent, enforcedAssistantBlocks, toolUses,
                   toolResults, execLog, finalResponse, hasExecutedTools,
                   verifierRuns, dryRun, earlierPaths, prevTurnTools, requests,
                   thrown, warned, executorThrew, elsewhere>>

\* failed tool executions so far in the behaviour (caps the failures explored)
ToolErrorsSoFar ==
    Cardinality(UNION {{<<m, i>> : i \in {j \in 1..Len(history[m].content) :
                            /\ history[m].content[j].type = "tool_result"
                            /\ history[m].content[j].is_error}} : m \in 1..Len(history)})
    + Cardinality({i \in 1..Len(toolResults) : toolResults[i].is_error})

\* ToolRunner.executeTools([toolUse]): one result for the one invocation,
\* is_error when the executor threw, failed or is unknown
executeTools(tus, failed) == [i \in 1..Len(tus) |-> ToolResult(tus[i].id, failed)]

\* await returns: toolResults.push(...result), the finished events
ToolReturns ==
    /\ pc = "executing"
    /\ \E i \in inFlight, failed \in BOOLEAN :
         LET result == executeTools(<<toolUses[i]>>, failed) IN
         /\ failed => ToolErrorsSoFar < MaxToolErrors
         /\ toolResults' = toolResults \o result
         /\ execLog' = Append(execLog, toolUses[i].id)
         /\ executorThrew' = IF failed THEN executorThrew \cup {toolUses[i].id}
                             ELSE executorThrew
         /\ inFlight' = inFlight \ {i}
         /\ pc' = OnToolResult(result)
         /\ events' = events \o AfterExecution(toolUses[i], newFileOpsThisTurn)
    /\ UNCHANGED <<history, turnCount, modelCalls, validatedHistory, rawContent,
                   stopReason, responseContent, enforcedAssistantBlocks, toolUses,
                   started, finalResponse, hasExecutedTools, verifierRuns, dryRun,
                   earlierPaths, prevTurnTools, requests, thrown, warned,
                   fileOpLocals, elsewhere>>

\* after the for-loop: push the tool results, then the end of the while body
EndToolTurn ==
    /\ pc = "executing"
    /\ started = Len(toolUses)
    /\ inFlight = {}
    /\ history' = PushToHistory(history, Message("user", toolResults))
    /\ pc' = AfterToolResults(stopReason)
    /\ earlierPaths' = earlierPaths \cup PathsReadOrCreated(toolUses)
    /\ prevTurnTools' = Len(toolUses)
    /\ UNCHANGED <<turnCount, modelCalls, validatedHistory, rawContent, stopReason,
                   responseContent, enforcedAssistantBlocks, toolUses, toolResults,
                   started, inFlight, execLog, finalResponse, hasExecutedTools,
                   verifierRuns, dryRun, requests, thrown, warned, events,
                   executorThrew, fileOpLocals, elsewhere>>

Next ==
    \/ LoadConversationHistory
    \/ Reset
    \/ StartRequest
    \/ BeginTurn
    \/ ExitAtCeiling
    \/ SendMessage
    \/ ModelFails
    \/ ReceiveResponse
    \/ StartTool
    \/ ToolReturns
    \/ EndToolTurn

Spec == Init /\ [][Next]_vars

\* the same loop under responses that touch one path several times: a create
\* followed by an edit of the file, an edit followed by a read of it, a search
FileOpResponses ==
    { [content |-> <<>>, stopReason |-> "end_turn"],
      [content |-> <<WriteAt(1, PathA), EditAt(2, PathA, Str("x"))>>,
       stopReason |-> "tool_use"],
      [content |-> <<EditAt(1, PathA, Str("x")), ViewAt(2, PathA)>>,
       stopReason |-> "tool_use"],
      [content |-> <<SearchAt(1)>>, stopReason |-> "tool_use"] }

ReceiveFileOps == Receive(FileOpResponses)

NextFileOps ==
    \/ StartRequest
    \/ BeginTurn
    \/ ExitAtCeiling
    \/ SendMessage
    \/ ReceiveFileOps
    \/ StartTool
    \/ ToolReturns
    \/ EndToolTurn

SpecFileOps == Init /\ [][NextFileOps]_vars

\* successive requests on one agent: a request may follow any request that has
\* returned, the longest one included
StartAfterAnyRequest == Start((1 + 2 * MAX_AGENT_TURNS) * MaxRequests)

NextSuccessive ==
    \/ StartAfterAnyRequest
    \/ BeginTurn
    \/ ExitAtCeiling
    \/ SendMessage
    \/ ReceiveFileOps
    \/ StartTool
    \/ ToolReturns
    \/ EndToolTurn

SpecSuccessive == Init /\ [][NextSuccessive]_vars

----------------------------------------------------------------------------
(* The enforcer on its own: every block sequence up to MaxLen *)

EnforcerKinds ==
    {[type |-> "text", name |-> "", path |-> Undefined, needle |-> Undefined],
     [type |-> "server_tool_use", name |-> "web_search", path |-> Undefined, needle |-> Undefined],
     [type |-> "tool_use", name |-> "either-search-files", path |-> Undefined, needle |-> Undefined],
     [type |-> "tool_use", name |-> "either-write", path |-> PathA, needle |-> Undefined],
     [type |-> "tool_use", name |-> "either-line-replace", path |-> Str(""), needle |-> Undefined],
     [type |-> "tool_use", name |-> "either-line-replace", path |-> Num7, needle |-> Undefined]}
    \cup [type : {"tool_use"}, name : {READ_TOOL}, path : {PathA, PathB}, needle : {Undefined}]
    \cup [type : {"tool_use"}, name : {"either-line-replace"}, path : {PathA, PathB},
          needle : {Undefined, Str("x")}]

BlockOfKind(k, i) ==
    IF k.type = "text" THEN TextBlock("t")
    ELSE IF k.type = "server_tool_use" THEN ServerAt(i)
    ELSE ToolUse(ToolId(i), k.name, Input(k.path, k.needle))

InitEnforcer ==
    /\ history = <<>> /\ turnCount = 0 /\ modelCalls = 0 /\ validatedHistory = <<>>
    /\ stopReason = "" /\ responseContent = <<>> /\ enforcedAssistantBlocks = <<>>
    /\ toolUses = <<>> /\ toolResults = <<>> /\ started = 0 /\ inFlight = {}
    /\ execLog = <<>> /\ finalResponse = <<>> /\ hasExecutedTools = FALSE
    /\ verifierRuns = 0 /\ earlierPaths = {} /\ prevTurnTools = 0 /\ requests = 0
    /\ thrown = NoError /\ warned = {} /\ events = <<>> /\ executorThrew = {}
    /\ fileOpsThisRequest = {} /\ filesCreatedThisRequest = {} /\ newFileOpsThisTurn = {}
    /\ Elsewhere
    /\ dryRun = FALSE
    /\ pc = "enforcer-input"
    /\ \E n \in 0..MaxLen : \E f \in [1..n -> EnforcerKinds] :
          rawContent = [i \in 1..n |-> BlockOfKind(f[i], i)]

\* const { contentBlocks, toolUses } = this.injectReadBeforeWriteBlocks(response.content)
ApplyEnforcer ==
    /\ pc = "enforcer-input"
    /\ \E rnd \in DrawSeqs :
         LET e == injectReadBeforeWriteBlocks(rawContent, rnd, earlierPaths) IN
         /\ responseContent' = e.responseContent
         /\ enforcedAssistantBlocks' = e.contentBlocks
         /\ toolUses' = e.toolUses
    /\ pc' = "enforcer-output"
    /\ UNCHANGED <<history, turnCount, modelCalls, validatedHistory, rawContent,
                   stopReason, toolResults, started, inFlight, execLog,
                   finalResponse, hasExecutedTools, verifierRuns, dryRun,
                   earlierPaths, prevTurnTools, requests, thrown, warned, events,
                   executorThrew, fileOpLocals, elsewhere>>

NextEnforcer == ApplyEnforcer

SpecEnforcer == InitEnforcer /\ [][NextEnforcer]_vars

----------------------------------------------------------------------------
(* The validator on its own: every history of up to MaxLen messages *)

ContentKinds == {"string", "object", "empty", "text", "unpaired", "mispaired", "paired"}

MessageKinds == [role : {"user", "assistant"}, content : ContentKinds]

MessageOfKind(k) ==
    IF k.content = "string" THEN StringMessage(k.role)
    ELSE IF k.content = "object" THEN NonArrayMessage(k.role, "object")
    ELSE IF k.content = "empty" THEN Message(k.role, <<>>)
    ELSE IF k.content = "text" THEN Message(k.role, <<TextBlock("t")>>)
    ELSE IF k.content = "unpaired" THEN Message(k.role, <<ServerAt(1)>>)
    ELSE IF k.content = "mispaired"
         THEN Message(k.role, <<ServerAt(1), WebSearchToolResult("srvtoolu_2")>>)
    ELSE Message(k.role, <<ServerAt(1), WebSearchToolResult("srvtoolu_1")>>)

InitValidator ==
    /\ turnCount = 0 /\ modelCalls = 0 /\ validatedHistory = <<>>
    /\ rawContent = <<>> /\ stopReason = "" /\ responseContent = <<>>
    /\ enforcedAssistantBlocks = <<>> /\ toolUses = <<>> /\ toolResults = <<>>
    /\ started = 0 /\ inFlight = {} /\ execLog = <<>> /\ finalResponse = <<>>
    /\ hasExecutedTools = FALSE /\ verifierRuns = 0 /\ earlierPaths = {}
    /\ prevTurnTools = 0 /\ requests = 0
    /\ thrown = NoError /\ warned = {} /\ events = <<>> /\ executorThrew = {}
    /\ fileOpsThisRequest = {} /\ filesCreatedThisRequest = {} /\ newFileOpsThisTurn = {}
    /\ Elsewhere
    /\ dryRun = FALSE
    /\ pc = "validator-input"
    /\ \E n \in 0..MaxLen : \E f \in [1..n -> MessageKinds] :
          history = [i \in 1..n |-> MessageOfKind(f[i])]

\* this.validateConversationHistory()
ApplyValidator ==
    /\ pc = "validator-input"
    /\ LET v == validateConversationHistory(history) IN
         /\ warned' = v.warned
         /\ thrown' = IF v.threw THEN ValidationError(v.idx, v.reason, v.got) ELSE NoError
         /\ validatedHistory' = IF v.threw THEN validatedHistory ELSE history
    /\ pc' = "validator-output"
    /\ UNCHANGED <<history, turnCount, modelCalls, turnLocals, execLog, finalResponse,
                   hasExecutedTools, verifierRuns, dryRun, earlierPaths,
                   prevTurnTools, requests, events, executorThrew, fileOpLocals, elsewhere>>

NextValidator == ApplyValidator

SpecValidator == InitValidator /\ [][NextValidator]_vars

----------------------------------------------------------------------------
(* The streaming observer: interface StreamingCallbacks and the text stream *)

\* the optional handlers of StreamingCallbacks that processRequest calls
CallbackNames ==
    {"onDelta", "onReasoning", "onPhase", "onThinkingComplete", "onFileOperation",
     "onToolStart", "onToolEnd", "onComplete"}

REASONING_STREAM_CHUNK_SIZE == 1   \* set in constants.ts (imported at agent.ts:11), taken small here

OnDelta(content) == <<"onDelta", content, "">>
OnReasoning(text) == <<"onReasoning", text, "">>
OnThinkingComplete == <<"onThinkingComplete", "", "">>

\* if (callbacks?.handler) callbacks.handler(...): the calls that reach a handler
Supplied(calls, cbs) == SelectSeq(calls, LAMBDA e : e[1] \in cbs)

\* for (let i = 0; i < buffer.length; i += SIZE) buffer.slice(i, i + SIZE)
Chunks(buffer) ==
    [k \in 1..((Len(buffer) + REASONING_STREAM_CHUNK_SIZE - 1) \div REASONING_STREAM_CHUNK_SIZE) |->
        SubSeq(buffer, (k - 1) * REASONING_STREAM_CHUNK_SIZE + 1,
               IF k * REASONING_STREAM_CHUNK_SIZE < Len(buffer)
               THEN k * REASONING_STREAM_CHUNK_SIZE ELSE Len(buffer))]

\* the text deltas the model client streams for a response: one per text block,
\* carrying its text
TextDeltas(content) == textBlocks(content)

\* let hasEmittedThinking = false; if (justExecutedTools) { ... }
TurnStart(run) ==
    IF run.justExecutedTools
    THEN [run EXCEPT !.hasEmittedThinking = TRUE, !.isInSummaryPhase = TRUE,
                     !.summaryBuffer = "", !.justExecutedTools = FALSE]
    ELSE [run EXCEPT !.hasEmittedThinking = FALSE]

\* onDelta: async (delta) => { if (delta.type === 'text') { ... } }
OnTextDelta(run, delta, cbs) ==
    LET start == ~run.hasEmittedThinking /\ "onPhase" \in cbs
        r1 == IF start
              THEN [run EXCEPT !.events = Append(@, OnPhase("thinking")),
                               !.isInThinkingPhase = TRUE,
                               !.hasEmittedThinking = TRUE]
              ELSE run
    IN  IF r1.isInThinkingPhase THEN [r1 EXCEPT !.thinkingBuffer = @ \o delta]
        ELSE IF r1.isInSummaryPhase THEN [r1 EXCEPT !.summaryBuffer = @ \o delta]
        ELSE [r1 EXCEPT !.events = @ \o Supplied(<<OnDelta(delta)>>, cbs)]

RECURSIVE StreamFrom(_, _, _, _)
StreamFrom(run, deltas, i, cbs) ==
    IF i > Len(deltas) THEN run
    ELSE StreamFrom(OnTextDelta(run, deltas[i], cbs), deltas, i + 1, cbs)

\* variant: the reasoning phase is announced whether or not tools follow
ThinkingTransition_AlwaysReasoning(run, toolUseCount, cbs) ==
    IF run.isInThinkingPhase /\ run.thinkingBuffer # ""
    THEN [run EXCEPT !.isInThinkingPhase = FALSE, !.thinkingBuffer = "",
             !.events = @ \o Supplied(<<OnThinkingComplete, OnPhase("reasoning")>>, cbs)]
    ELSE run

\* --- Handle thinking -> reasoning transition ---
ThinkingTransition(run, toolUseCount, cbs) ==
    IF run.isInThinkingPhase /\ run.thinkingBuffer # "" /\ toolUseCount > 0
    THEN [run EXCEPT
             !.isInThinkingPhase = FALSE,
             !.thinkingBuffer = "",
             !.events = @ \o Supplied(<<OnThinkingComplete, OnPhase("reasoning")>>
                                      \o [k \in 1..Len(Chunks(run.thinkingBuffer)) |->
                                            OnReasoning(Chunks(run.thinkingBuffer)[k])], cbs)]
    ELSE IF run.isInThinkingPhase /\ run.thinkingBuffer # "" /\ toolUseCount = 0
    THEN [run EXCEPT
             !.isInThinkingPhase = FALSE,
             !.thinkingBuffer = "",
             !.events = @ \o Supplied(<<OnDelta(run.thinkingBuffer)>>, cbs)]
    ELSE run

\* if (isInSummaryPhase && summaryBuffer) { onPhase('building'); chunks; clear }
SummaryFlush(run, cbs) ==
    IF run.isInSummaryPhase /\ run.summaryBuffer # ""
    THEN [run EXCEPT
             !.isInSummaryPhase = FALSE,
             !.summaryBuffer = "",
             !.events = @ \o Supplied(<<OnPhase("building")>>
                                      \o [k \in 1..Len(Chunks(run.summaryBuffer)) |->
                                            OnDelta(Chunks(run.summaryBuffer)[k])], cbs)]
    ELSE run

\* onPhase('code-writing'); justExecutedTools = true; hasExecutedTools = true
EnterToolExecution(run, cbs) ==
    [run EXCEPT !.events = @ \o Supplied(<<OnPhase("code-writing")>>, cbs),
                !.justExecutedTools = TRUE,
                !.hasExecutedTools = TRUE]

----------------------------------------------------------------------------
(* Missing-reference check: Agent.checkMissingFileReferences *)

StartsWith(str, prefix) ==
    Len(str) >= Len(prefix) /\ SubSeq(str, 1, Len(prefix)) = prefix

EndsWith(str, suffix) ==
    Len(str) >= Len(suffix) /\ SubSeq(str, Len(str) - Len(suffix) + 1, Len(str)) = suffix

\* path.replace(/^\.?\//, '')
StripLeadingSlash(str) ==
    IF StartsWith(str, "./") THEN SubSeq(str, 3, Len(str))
    ELSE IF StartsWith(str, "/") THEN SubSeq(str, 2, Len(str))
    ELSE str

\* importPath.replace(/^\.\//, '')
StripDotSlash(str) == IF StartsWith(str, "./") THEN SubSeq(str, 3, Len(str)) ELSE str

\* a file's text, as the references the three regular expressions find in it:
\* <script src>, <link href> (with the tag's text) and import ... from
FileContent(refs) == [t |-> "string", s |-> "<content>", refs |-> refs]
ScriptRef(file) == [tag |-> "script", attr |-> "src", file |-> file, stylesheet |-> FALSE]
LinkRef(file, stylesheet) ==
    [tag |-> "link", attr |-> "href", file |-> file, stylesheet |-> stylesheet]
ImportRef(file) == [tag |-> "import", attr |-> "from", file |-> file, stylesheet |-> FALSE]

\* input?.content
ContentOf(input) == IF "content" \in DOMAIN input THEN input.content ELSE Undefined

\* the matches of one of the regular expressions
Matches(content, tag) == SelectSeq(content.refs, LAMBDA r : r.tag = tag)

MissingRef(htmlFile, ref) ==
    [htmlFile |-> htmlFile, tag |-> ref.tag, attr |-> ref.attr, file |-> ref.file]

\* the writes the two filters keep, as positions of toolUses
IsWriteOf(toolUse, suffixes) ==
    /\ toolUse.name \in {"either-write", "either-line-replace"}
    /\ toolUse.input.path.t = "string"
    /\ \E suffix \in suffixes : EndsWith(toolUse.input.path.s, suffix)

\* what the body of either for-loop reads of a write: its text, when the write
\* has a path, a result that is no error, and string content
CheckedContent(tus, results, i) ==
    LET content == IF tus[i].name = "either-write"
                   THEN ContentOf(tus[i].input) ELSE Undefined
    IN  IF /\ Truthy(tus[i].input.path)
           /\ i <= Len(results) /\ ~results[i].is_error
           /\ Truthy(content) /\ content.t = "string"
        THEN content ELSE FileContent(<<>>)

\* !createdFiles.has(normalizedPath) && !createdFiles.has(scriptPath)
HtmlRefMissing(ref, createdFiles) ==
    StripLeadingSlash(ref.file) \notin createdFiles /\ ref.file \notin createdFiles

\* const possiblePaths = [...]; const srcPaths = possiblePaths.map(p => 'src/' + p)
PossiblePaths(importPath) ==
    LET normalizedPath == StripDotSlash(importPath)
        possiblePaths == {normalizedPath} \cup
            {normalizedPath \o ext : ext \in {".jsx", ".tsx", ".js", ".ts", "/index.jsx",
                                              "/index.tsx", "/index.js", "/index.ts"}}
    IN  possiblePaths \cup {"src/" \o q : q \in possiblePaths}

\* [...possiblePaths, ...srcPaths].some(p => has(p) || has('./' + p) || has('/' + p))
ImportExists(importPath, createdFiles) ==
    \E q \in PossiblePaths(importPath) :
        q \in createdFiles \/ ("./" \o q) \in createdFiles \/ ("/" \o q) \in createdFiles

\* the references one HTML write adds to missing: scripts, then stylesheet links
MissingOfHtml(toolUse, content, createdFiles) ==
    LET scripts == SelectSeq(Matches(content, "script"),
                             LAMBDA r : HtmlRefMissing(r, createdFiles))
        links == SelectSeq(Matches(content, "link"),
                           LAMBDA r : r.stylesheet /\ HtmlRefMissing(r, createdFiles))
        found == scripts \o links
    IN  [k \in 1..Len(found) |-> MissingRef(toolUse.input.path.s, found[k])]

\* the references one JS/TS write adds to missing: relative imports
MissingOfReact(toolUse, content, createdFiles) ==
    LET found == SelectSeq(Matches(content, "import"),
                           LAMBDA r : StartsWith(r.file, ".")
                                      /\ ~ImportExists(r.file, createdFiles))
    IN  [k \in 1..Len(found) |-> MissingRef(toolUse.input.path.s, found[k])]

RECURSIVE MissingFrom(_, _, _, _, _)
MissingFrom(tus, results, createdFiles, i, html) ==
    IF i > Len(tus) THEN <<>>
    ELSE (IF html /\ IsWriteOf(tus[i], {".html"})
          THEN MissingOfHtml(tus[i], CheckedContent(tus, results, i),
                             createdFiles)
          ELSE IF ~html /\ IsWriteOf(tus[i], {".jsx", ".tsx", ".js", ".ts"})
          THEN MissingOfReact(tus[i], CheckedContent(tus, results, i),
                              createdFiles)
          ELSE <<>>)
         \o MissingFrom(tus, results, createdFiles, i + 1, html)

\* the HTML writes first, then the JS/TS writes
checkMissingFileReferences(tus, createdFiles, results) ==
    MissingFrom(tus, results, createdFiles, 1, TRUE)
    \o MissingFrom(tus, results, createdFiles, 1, FALSE)

\* metadata?.path of a tool result: the path a write executor reports for the
\* file it wrote
MetadataPath(toolUse, result) ==
    IF toolUse.name \in {"either-write", "either-line-replace"} /\ ~result.is_error
    THEN toolUse.input.path ELSE Undefined

\* variant: the files created so far in the request
CreatedFilesForCheck_ThisRequest(earlier, tus, results) ==
    earlier \cup
    {MetadataPath(tus[i], results[i]).s : i \in {j \in 1..Len(results) :
        Truthy(MetadataPath(tus[j], results[j])) /\ ~results[j].is_error}}

\* const createdFilesThisTurn = new Set(); for (const result of toolResults)
\* if (metadata?.path && !result.is_error) createdFilesThisTurn.add(metadata.path)
CreatedFilesForCheck(earlier, tus, results) ==
    {MetadataPath(tus[i], results[i]).s : i \in {j \in 1..Len(results) :
        Truthy(MetadataPath(tus[j], results[j])) /\ ~results[j].is_error}}

RECURSIVE WarningLines(_, _)
WarningLines(missingRefs, i) ==
    IF i > Len(missingRefs) THEN ""
    ELSE (IF i > 1 THEN "\n" ELSE "")
         \o "  - " \o missingRefs[i].htmlFile \o " references <" \o missingRefs[i].tag
         \o " " \o missingRefs[i].attr \o "=\"" \o missingRefs[i].file \o "\"> but "
         \o missingRefs[i].file \o " was not created"
         \o WarningLines(missingRefs, i + 1)

\* const warningMessage (without its warning sign)
WarningMessage(missingRefs) ==
    "\n\nWARNING: Missing file references detected:\n" \o WarningLines(missingRefs, 1)
    \o "\n\nYou MUST create these files in your next response to make the app functional."

\* variant: the warning is put on every result
AppendWarning_ToAll(results, missingRefs) ==
    IF Len(missingRefs) > 0
    THEN [i \in 1..Len(results) |->
            [results[i] EXCEPT !.text = @ \o WarningMessage(missingRefs)]]
    ELSE results

\* if (missingRefs.length > 0) if (toolResults.length > 0)
\*   lastResult.content = (lastResult.content || '') + warningMessage
AppendWarning(results, missingRefs) ==
    IF Len(missingRefs) > 0 /\ Len(results) > 0
    THEN [results EXCEPT ![Len(results)].text = @ \o WarningMessage(missingRefs)]
    ELSE results

----------------------------------------------------------------------------
(* Agent.processRequest as a function of its inputs, turn by turn, run under *)
(* each callback set on the same model responses and tool outcomes          *)

CallbackSets == {CallbackNames, {}, CallbackNames \ {"onPhase"}}

\* processRequest up to the while: the pushed user message and the locals
NewRun(h) ==
    [status |-> "running",
     history |-> Append(h, Message("user", UserText)),
     turnCount |-> 0,
     finalResponse |-> <<>>,
     hasExecutedTools |-> FALSE,
     verifierRuns |-> 0,
     changedFiles |-> {},
     justExecutedTools |-> FALSE,
     thinkingBuffer |-> "",
     isInThinkingPhase |-> FALSE,
     summaryBuffer |-> "",
     isInSummaryPhase |-> FALSE,
     hasEmittedThinking |-> FALSE,
     fileOpsThisRequest |-> {},
     filesCreatedThisRequest |-> {},
     newFileOpsThisTurn |-> {},
     toolResults |-> <<>>,
     earlierPaths |-> {},
     events |-> <<>>,
     thrown |-> NoError,
     log |-> <<>>]

\* what one turn did: the history sent to the model, the response, the
\* invocations executed, their results as the executors returned them and as
\* they were pushed, and what the missing-reference check found
TurnRecord(sent, content, tus, rawResults, results, missingRefs, changedBefore) ==
    [sent |-> sent, content |-> content, toolUses |-> tus, rawResults |-> rawResults,
     toolResults |-> results, missingRefs |-> missingRefs,
     changedBefore |-> changedBefore]

\* variant: the request completes only for a caller that listens for it
Complete_OnlyWhenObserved(run, cbs) ==
    [run EXCEPT !.status = "done",
                !.finalResponse = IF "onComplete" \in cbs THEN @ ELSE <<>>,
                !.events = @ \o Supplied(Completion, cbs)]

\* after the loop: onPhase('completed'), onComplete(usage), return finalResponse
Complete(run, cbs) ==
    [run EXCEPT !.status = "done", !.events = @ \o Supplied(Completion, cbs)]

\* the body of for (const toolUse of toolUses), from position i on
RECURSIVE ExecuteFrom(_, _, _, _, _)
ExecuteFrom(run, tus, i, failed, cbs) ==
    IF i > Len(tus) THEN run
    ELSE LET b == BeforeExecution(tus[i], run.fileOpsThisRequest,
                                  run.filesCreatedThisRequest)
             newOps == run.newFileOpsThisTurn \cup b.newOps
             result == executeTools(<<tus[i]>>, i \in failed)
         IN  ExecuteFrom(
                 [run EXCEPT
                     !.filesCreatedThisRequest = b.created,
                     !.fileOpsThisRequest = @ \cup b.newOps,
                     !.newFileOpsThisTurn = newOps,
                     !.toolResults = @ \o result,
                     !.events = @ \o Supplied(b.events \o AfterExecution(tus[i], newOps),
                                              cbs)],
                 tus, i + 1, failed, cbs)

\* if (toolUses.length === 0) { ... break } and what follows the loop
FinalTurn(run, sent, content, cbs, dry) ==
    LET flushed == SummaryFlush([run EXCEPT !.finalResponse = textBlocks(content)], cbs)
        verified == IF ShouldVerify(flushed.hasExecutedTools, dry)
                    THEN [flushed EXCEPT !.finalResponse = Append(@, VerificationSummary),
                                         !.verifierRuns = @ + 1]
                    ELSE flushed
    IN  Complete([verified EXCEPT
                     !.log = Append(@, TurnRecord(sent, content, <<>>, <<>>, <<>>, <<>>,
                                                  run.changedFiles))], cbs)

\* the rest of the while body when there are invocations to execute
ToolTurn(run, sent, content, tus, failed, cbs, dry) ==
    LET entered == EnterToolExecution(run, cbs)
        executed == IF UsesExecutors(dry)
                    THEN ExecuteFrom([entered EXCEPT !.newFileOpsThisTurn = {},
                                                     !.toolResults = <<>>],
                                     tus, 1, failed, cbs)
                    ELSE [entered EXCEPT !.toolResults = DryRunResults(tus)]
        createdFilesThisTurn ==
            IF UsesExecutors(dry)
            THEN CreatedFilesForCheck(run.changedFiles, tus, executed.toolResults)
            ELSE {}
        missingRefs ==
            IF UsesExecutors(dry)
            THEN checkMissingFileReferences(tus, createdFilesThisTurn, executed.toolResults)
            ELSE <<>>
        results == AppendWarning(executed.toolResults, missingRefs)
    IN  [executed EXCEPT
            !.toolResults = results,
            !.changedFiles =
                IF UsesExecutors(dry)
                THEN @ \cup {MetadataPath(tus[i], executed.toolResults[i]).s :
                                i \in {j \in 1..Len(tus) :
                                    Truthy(MetadataPath(tus[j], executed.toolResults[j]))}}
                ELSE @,
            !.history = Append(@, Message("user", results)),
            !.earlierPaths = @ \cup PathsReadOrCreated(tus),
            !.log = Append(@, TurnRecord(sent, content, tus, executed.toolResults,
                                         results, missingRefs, run.changedFiles))]

\* one pass of the while body
Turn(run, input, cbs, dry) ==
    LET counted == [run EXCEPT !.turnCount = @ + 1]
        v == validateConversationHistory(run.history)
        started_ == TurnStart(counted)
        sent == run.history
        streamed == StreamFrom(started_, TextDeltas(input.content), 1, cbs)
        e == injectReadBeforeWriteBlocks(input.content, input.rnd, run.earlierPaths)
        shown == ThinkingTransition(streamed, Len(e.toolUses), cbs)
        answered == [shown EXCEPT
                        !.history = Append(@, AssistantMessage(e.contentBlocks))]
    IN  IF v.threw
        THEN [counted EXCEPT !.status = "aborted",
                             !.thrown = ValidationError(v.idx, v.reason, v.got)]
        ELSE IF input.rejected
        THEN [started_ EXCEPT
                 !.status = "aborted",
                 !.thrown = ModelError,
                 !.log = Append(@, TurnRecord(sent, <<>>, <<>>, <<>>, <<>>, <<>>,
                                              run.changedFiles))]
        ELSE IF Len(e.toolUses) = 0
        THEN FinalTurn(answered, sent, input.content, cbs, dry)
        ELSE ToolTurn(answered, sent, input.content, e.toolUses, input.failed, cbs, dry)

\* inputs of the runs
MainJs == Str("main.js")
IndexHtml == Str("index.html")

WriteFileAt(i, path, refs) ==
    ToolUse(ToolId(i), "either-write",
            [path |-> path, needle |-> Undefined, _enforcerWarning |-> Undefined,
             content |-> FileContent(refs)])

RunMenu ==
    { <<>>,
      <<TextBlock("t")>>,
      <<TextBlock("")>>,
      <<TextBlock("t"), WriteFileAt(2, MainJs, <<>>)>>,
      <<WriteFileAt(1, IndexHtml, <<ScriptRef("./main.js")>>)>>,
      <<WriteFileAt(1, IndexHtml, <<ScriptRef("./main.js")>>), SearchAt(2)>>,
      <<TextBlock(""), SearchAt(2)>>,
      <<TextBlock("t"), EditAt(2, MainJs, Undefined)>> }

\* a response with the outcome of its invocations, or the rejection of the call
RunInputs ==
    {in \in [content : RunMenu, rnd : TurnDraws, failed : {{}, {1}},
             rejected : BOOLEAN] :
        /\ in.rejected => in.content = <<>> /\ in.failed = {}
        /\ in.failed # {} => \E i \in 1..Len(in.content) : in.content[i].type = "tool_use"}

InitRuns ==
    /\ history = <<>> /\ turnCount = 0 /\ modelCalls = 0 /\ validatedHistory = <<>>
    /\ rawContent = <<>> /\ stopReason = "" /\ responseContent = <<>>
    /\ enforcedAssistantBlocks = <<>> /\ toolUses = <<>> /\ toolResults = <<>>
    /\ started = 0 /\ inFlight = {} /\ execLog = <<>> /\ finalResponse = <<>>
    /\ hasExecutedTools = FALSE /\ verifierRuns = 0 /\ earlierPaths = {}
    /\ prevTurnTools = 0 /\ requests = 0
    /\ thrown = NoError /\ warned = {} /\ events = <<>> /\ executorThrew = {}
    /\ fileOpsThisRequest = {} /\ filesCreatedThisRequest = {} /\ newFileOpsThisTurn = {}
    /\ context = NoContext /\ executorLog = <<>> /\ previousMessages = <<>>
    /\ dryRun \in BOOLEAN
    /\ pc = "runs"
    /\ runs = [cbs \in CallbackSets |-> NewRun(<<>>)]

loopLocals == <<history, turnCount, modelCalls, validatedHistory, turnLocals, execLog,
                finalResponse, hasExecutedTools, verifierRuns, dryRun, earlierPaths,
                prevTurnTools, requests, thrown, warned, events, executorThrew,
                fileOpLocals>>

\* while (turnCount < MAX_AGENT_TURNS) { ... }: every run takes the same turn
TurnOfRuns ==
    /\ pc = "runs"
    /\ runs[CallbackNames].status = "running"
    /\ WithinTurnLimit(runs[CallbackNames].turnCount)
    /\ \E input \in RunInputs :
         runs' = [cbs \in CallbackSets |->
                    IF runs[cbs].status = "running"
                       /\ WithinTurnLimit(runs[cbs].turnCount)
                    THEN Turn(runs[cbs], input, cbs, dryRun)
                    ELSE runs[cbs]]
    /\ UNCHANGED <<pc, loopLocals, context, executorLog, previousMessages>>

\* the while condition fails
CeilingOfRuns ==
    /\ pc = "runs"
    /\ runs[CallbackNames].status = "running"
    /\ ~WithinTurnLimit(runs[CallbackNames].turnCount)
    /\ runs' = [cbs \in CallbackSets |->
                  IF runs[cbs].status = "running"
                     /\ ~WithinTurnLimit(runs[cbs].turnCount)
                  THEN Complete(runs[cbs], cbs)
                  ELSE runs[cbs]]
    /\ UNCHANGED <<pc, loopLocals, context, executorLog, previousMessages>>

NextRuns == TurnOfRuns \/ CeilingOfRuns

SpecRuns == InitRuns /\ [][NextRuns]_vars

----------------------------------------------------------------------------
(* The database context of the tool runner and the Web3 executors *)

MaxCalls == 2   \* calls on the DatabaseAgent and its executors per behaviour

\* this.db of the DatabaseAgent: options.db, a DatabaseClient
DatabaseClient == [t |-> "object", s |-> "DatabaseClient"]
FileStore == [t |-> "object", s |-> "PostgresFileStore"]

\* ToolRunner.setDatabaseContext(fileStore, appId, sessionId, db)
ToolRunnerSetDatabaseContext(ctx, fileStore, appId, sessionId, db) ==
    [ctx EXCEPT !.fileStore = fileStore,
                !.appId = appId,
                !.sessionId = sessionId,
                !.db = IF Truthy(db) THEN db ELSE @]

\* Agent.setDatabaseContext(fileStore, appId, sessionId, db)
AgentSetDatabaseContext(ctx, fileStore, appId, sessionId, db) ==
    ToolRunnerSetDatabaseContext(ctx, fileStore, appId, sessionId, db)

\* variant: this.agent.setDatabaseContext(fileStore, appId, sessionId, this.db)
DatabaseAgentSetDatabaseContext_PassDb(ctx, fileStore, appId, sessionId) ==
    AgentSetDatabaseContext(ctx, fileStore, appId, sessionId, DatabaseClient)

\* DatabaseAgent.setDatabaseContext(fileStore, appId, sessionId):
\* this.agent.setDatabaseContext(fileStore, appId, sessionId), no fourth
\* argument, so db is undefined in the Agent
DatabaseAgentSetDatabaseContext(ctx, fileStore, appId, sessionId) ==
    AgentSetDatabaseContext(ctx, fileStore, appId, sessionId, Undefined)

\* the way DeploySmartContractExecutor.execute goes: back with an error before
\* the try, through ContractService on context.db, or to the HTTP API
DeploySmartContractPath(input, ctx) ==
    IF ~Truthy(input.contractType) \/ ~Truthy(input.name) \/ ~Truthy(input.symbol)
    THEN "rejected"
    ELSE IF input.contractType \notin {Str("erc20"), Str("erc721")}
    THEN "rejected"
    ELSE IF input.contractType = Str("erc20") /\ ~Truthy(input.totalSupply)
    THEN "rejected"
    ELSE IF Truthy(ctx.db) THEN "direct"
    ELSE "http"

\* the way GenerateContractCodeExecutor.execute goes
GenerateContractCodePath(input, ctx) ==
    IF ~Truthy(input.contractId) THEN "rejected"
    ELSE IF Truthy(ctx.db) THEN "direct"
    ELSE "http"

DeployInputs ==
    { [contractType |-> Str("erc20"), name |-> Str("Tok"), symbol |-> Str("TK"),
       totalSupply |-> Str("1000")],
      [contractType |-> Str("erc20"), name |-> Str("Tok"), symbol |-> Str("TK"),
       totalSupply |-> Undefined],
      [contractType |-> Str("erc721"), name |-> Str("Tok"), symbol |-> Str("TK"),
       totalSupply |-> Undefined],
      [contractType |-> Str("erc1155"), name |-> Str("Tok"), symbol |-> Str("TK"),
       totalSupply |-> Undefined],
      [contractType |-> Str("erc721"), name |-> Str(""), symbol |-> Str("TK"),
       totalSupply |-> Undefined],
      [contractType |-> Undefined, name |-> Str("Tok"), symbol |-> Undefined,
       totalSupply |-> Undefined] }

GenerateInputs == { [contractId |-> Str("c1")], [contractId |-> Undefined] }

\* a DatabaseAgent on a new Agent: the tool runner has no database context
InitDatabase ==
    /\ history = <<>> /\ turnCount = 0 /\ modelCalls = 0 /\ validatedHistory = <<>>
    /\ rawContent = <<>> /\ stopReason = "" /\ responseContent = <<>>
    /\ enforcedAssistantBlocks = <<>> /\ toolUses = <<>> /\ toolResults = <<>>
    /\ started = 0 /\ inFlight = {} /\ execLog = <<>> /\ finalResponse = <<>>
    /\ hasExecutedTools = FALSE /\ verifierRuns = 0 /\ earlierPaths = {}
    /\ prevTurnTools = 0 /\ requests = 0
    /\ thrown = NoError /\ warned = {} /\ events = <<>> /\ executorThrew = {}
    /\ fileOpsThisRequest = {} /\ filesCreatedThisRequest = {} /\ newFileOpsThisTurn = {}
    /\ dryRun = FALSE
    /\ runs = <<>> /\ previousMessages = <<>>
    /\ pc = "database"
    /\ context = NoContext
    /\ executorLog = <<>>

\* dbAgent.setDatabaseContext(fileStore, session.app_id || sessionId, sessionId)
SetDatabaseContext ==
    /\ pc = "database"
    /\ Len(executorLog) < MaxCalls
    /\ \E appId \in {Str("app1"), Str("s1")}, sessionId \in {Str("s1"), Undefined} :
         /\ context' = DatabaseAgentSetDatabaseContext(context, FileStore, appId, sessionId)
         /\ executorLog' = Append(executorLog,
                [call |-> "setDatabaseContext", input |-> <<appId, sessionId>>,
                 path |-> ""])
    /\ UNCHANGED <<pc, loopLocals, runs, previousMessages>>

\* the tool runner hands its context to the deploy-smart-contract executor
DeploySmartContract ==
    /\ pc = "database"
    /\ Len(executorLog) < MaxCalls
    /\ \E input \in DeployInputs :
         executorLog' = Append(executorLog,
             [call |-> "deploy-smart-contract", input |-> input,
              path |-> DeploySmartContractPath(input, context)])
    /\ UNCHANGED <<pc, loopLocals, runs, context, previousMessages>>

\* the tool runner hands its context to the generate-contract-code executor
GenerateContractCode ==
    /\ pc = "database"
    /\ Len(executorLog) < MaxCalls
    /\ \E input \in GenerateInputs :
         executorLog' = Append(executorLog,
             [call |-> "generate-contract-code", input |-> input,
              path |-> GenerateContractCodePath(input, context)])
    /\ UNCHANGED <<pc, loopLocals, runs, context, previousMessages>>

NextDatabase == SetDatabaseContext \/ DeploySmartContract \/ GenerateContractCode

SpecDatabase == InitDatabase /\ [][NextDatabase]_vars

----------------------------------------------------------------------------
(* DatabaseAgent.processRequest: the stored messages become the Agent's history *)

MaxStored == 2   \* rows findRecentBySession returns per behaviour

CharAt(str, i) == SubSeq(str, i, i)

Base64Chars ==
    {"A", "B", "C", "D", "E", "F", "G", "H", "I", "J", "K", "L", "M",
     "N", "O", "P", "Q", "R", "S", "T", "U", "V", "W", "X", "Y", "Z",
     "a", "b", "c", "d", "e", "f", "g", "h", "i", "j", "k", "l", "m",
     "n", "o", "p", "q", "r", "s", "t", "u", "v", "w", "x", "y", "z",
     "0", "1", "2", "3", "4", "5", "6", "7", "8", "9", "+", "/"}

\* /^[A-Za-z0-9+/]+=*$/.test(str)
base64Pattern(str) ==
    \E k \in 1..Len(str) :
        /\ \A i \in 1..k : CharAt(str, i) \in Base64Chars
        /\ \A i \in (k + 1)..Len(str) : CharAt(str, i) = "="

\* DatabaseAgent.isBase64Encrypted
isBase64Encrypted(str) == IF Len(str) < 100 THEN FALSE ELSE base64Pattern(str)

\* blocks as the messages table holds them
StoredText(text) == [type |-> "text", text |-> text, data |-> "", thinking |-> ""]
StoredRedactedThinking(data, thinking, text) ==
    [type |-> "redacted_thinking", text |-> text, data |-> data, thinking |-> thinking]

NonEmptyString(str) == str # ""

Removed == [type |-> "null"]

\* the callback of contentBlocks.map
CleanupBlock(block) ==
    IF block.type = "redacted_thinking" /\ NonEmptyString(block.data)
       /\ (Len(block.data) < 50 \/ ~isBase64Encrypted(block.data))
    THEN IF NonEmptyString(block.text) \/ NonEmptyString(block.thinking)
         THEN [type |-> "thinking",
               thinking |-> IF NonEmptyString(block.thinking) THEN block.thinking ELSE block.text]
         ELSE Removed
    ELSE block

\* DatabaseAgent.cleanupInvalidRedactedThinkingBlocks: map, then filter(Boolean)
cleanupInvalidRedactedThinkingBlocks(contentBlocks) ==
    SelectSeq([i \in 1..Len(contentBlocks) |-> CleanupBlock(contentBlocks[i])],
              LAMBDA b : b.type # "null")

\* msg.content as the messages table holds it
StoredString(str) ==
    [typeof |-> "string", isNull |-> FALSE, isArray |-> FALSE, s |-> str,
     hasText |-> FALSE, text |-> "", blocks |-> <<>>]
StoredObject(hasText, text) ==
    [typeof |-> "object", isNull |-> FALSE, isArray |-> FALSE, s |-> "",
     hasText |-> hasText, text |-> text, blocks |-> <<>>]
StoredArray(blocks) ==
    [typeof |-> "object", isNull |-> FALSE, isArray |-> TRUE, s |-> "",
     hasText |-> FALSE, text |-> "", blocks |-> blocks]
StoredNull ==
    [typeof |-> "object", isNull |-> TRUE, isArray |-> FALSE, s |-> "null",
     hasText |-> FALSE, text |-> "", blocks |-> <<>>]
StoredNumber ==
    [typeof |-> "number", isNull |-> FALSE, isArray |-> FALSE, s |-> "7",
     hasText |-> FALSE, text |-> "", blocks |-> <<>>]

\* JSON.stringify of an object that holds at most a text property
JsonStringify(content) ==
    IF content.hasText THEN "{\"text\":\"" \o content.text \o "\"}" ELSE "{}"

\* the body of the .map callback: content is always made a list
ConvertContent(content) ==
    IF content.typeof = "string" THEN <<StoredText(content.s)>>
    ELSE IF content.typeof = "object" /\ ~content.isNull
         THEN IF content.isArray
              THEN cleanupInvalidRedactedThinkingBlocks(content.blocks)
              ELSE IF content.hasText /\ NonEmptyString(content.text)
                   THEN <<StoredText(content.text)>>
                   ELSE <<StoredText(JsonStringify(content))>>
    ELSE <<StoredText(content.s)>>

\* previousMessages.filter(role is user or assistant).map(...)
ConversationHistoryOf(rows) ==
    LET kept == SelectSeq(rows, LAMBDA msg : msg.role \in {"user", "assistant"})
    IN  [i \in 1..Len(kept) |-> Message(kept[i].role, ConvertContent(kept[i].content))]

ValidData == "QUJDQUJDQUJDQUJDQUJDQUJDQUJDQUJDQUJDQUJDQUJDQUJDQUJDQUJDQUJDQUJDQUJDQUJDQUJDQUJDQUJDQUJDQUJDQUJDQUJDQUJDQUJDQUJDQUJDQUJD"
NotBase64Data == "QUJ[QUJ[QUJ[QUJ[QUJ[QUJ[QUJ[QUJ[QUJ[QUJ[QUJ[QUJ[QUJ[QUJ[QUJ[QUJ[QUJ[QUJ[QUJ[QUJ[QUJ[QUJ[QUJ[QUJ[QUJ[QUJ[QUJ[QUJ[QUJ[QUJ["
FakeData == "[redacted]"

StoredContents ==
    { StoredString(""), StoredString("hi"),
      StoredObject(TRUE, "hi"), StoredObject(TRUE, ""), StoredObject(FALSE, ""),
      StoredNull, StoredNumber,
      StoredArray(<<>>),
      StoredArray(<<StoredText("t")>>),
      StoredArray(<<StoredRedactedThinking(ValidData, "", "")>>),
      StoredArray(<<StoredRedactedThinking(NotBase64Data, "", "old")>>),
      StoredArray(<<StoredRedactedThinking(FakeData, "why", "")>>),
      StoredArray(<<StoredRedactedThinking(FakeData, "", "")>>),
      StoredArray(<<StoredRedactedThinking(FakeData, "", ""), StoredText("t")>>) }

StoredRows == [role : {"user", "assistant", "system"}, content : StoredContents]

\* a DatabaseAgent on a new Agent, and what the session's messages table holds
InitStored ==
    /\ history = <<>> /\ turnCount = 0 /\ modelCalls = 0 /\ validatedHistory = <<>>
    /\ rawContent = <<>> /\ stopReason = "" /\ responseContent = <<>>
    /\ enforcedAssistantBlocks = <<>> /\ toolUses = <<>> /\ toolResults = <<>>
    /\ started = 0 /\ inFlight = {} /\ execLog = <<>> /\ finalResponse = <<>>
    /\ hasExecutedTools = FALSE /\ verifierRuns = 0 /\ earlierPaths = {}
    /\ prevTurnTools = 0 /\ requests = 0
    /\ thrown = NoError /\ warned = {} /\ events = <<>> /\ executorThrew = {}
    /\ fileOpsThisRequest = {} /\ filesCreatedThisRequest = {} /\ newFileOpsThisTurn = {}
    /\ dryRun = FALSE
    /\ runs = <<>> /\ context = NoContext /\ executorLog = <<>>
    /\ pc = "database-agent"
    /\ \E n \in 0..MaxStored : previousMessages \in [1..n -> StoredRows]

\* DatabaseAgent.processRequest up to this.agent.loadConversationHistory(...)
LoadStoredMessages ==
    /\ pc = "database-agent"
    /\ history' = ConversationHistoryOf(previousMessages)
    /\ pc' = "idle"
    /\ UNCHANGED <<turnCount, modelCalls, validatedHistory, turnLocals, execLog,
                   finalResponse, hasExecutedTools, verifierRuns, dryRun,
                   earlierPaths, prevTurnTools, requests, thrown, warned, events,
                   executorThrew, fileOpLocals, elsewhere>>

\* response = await this.agent.processRequest(prompt, callbacks)
StartLoadedRequest == requests = 0 /\ StartRequest

NextStored == LoadStoredMessages \/ StartLoadedRequest \/ BeginTurn

SpecStored == InitStored /\ [][NextStored]_vars

----------------------------------------------------------------------------
(* Two processRequest calls in flight on one Agent: they share
   conversationHistory and switch at the awaits *)

Callers == {1, 2}

PromptOf(p) == <<TextBlock("prompt " \o ToString(p))>>

\* the ids the model issues are unique across responses
CallToolId(p, turn, i) ==
    "toolu_" \o ToString(p) \o "_" \o ToString(turn) \o "_" \o ToString(i)

SearchBy(p, turn, i) == ToolUse(CallToolId(p, turn, i), "either-search-files", NoInput)

ResponsesTo(p, turn) ==
    { [content |-> <<TextBlock("t")>>, stopReason |-> "end_turn"],
      [content |-> <<TextBlock("t"), SearchBy(p, turn, 1), SearchBy(p, turn, 2)>>,
       stopReason |-> "tool_use"] }

\* the locals of a call that has not been made
NotCalled ==
    [pc |-> "not-called", turnCount |-> 0, stopReason |-> "",
     toolUses |-> <<>>, toolResults |-> <<>>]

\* the while test, turnCount++, validateConversationHistory(), and the call of
\* sendMessage; h is the shared history at that moment
EnterTurn(call, h) ==
    IF ~WithinTurnLimit(call.turnCount) THEN [call EXCEPT !.pc = "done"]
    ELSE IF validateConversationHistory(h).threw
         THEN [call EXCEPT !.pc = "aborted", !.turnCount = @ + 1]
    ELSE [call EXCEPT !.pc = "awaiting", !.turnCount = @ + 1]

InitConcurrent ==
    /\ history = <<>> /\ turnCount = 0 /\ modelCalls = 0 /\ validatedHistory = <<>>
    /\ rawContent = <<>> /\ stopReason = "" /\ responseContent = <<>>
    /\ enforcedAssistantBlocks = <<>> /\ toolUses = <<>> /\ toolResults = <<>>
    /\ started = 0 /\ inFlight = {} /\ execLog = <<>> /\ finalResponse = <<>>
    /\ hasExecutedTools = FALSE /\ verifierRuns = 0 /\ earlierPaths = {}
    /\ prevTurnTools = 0 /\ requests = 0
    /\ thrown = NoError /\ warned = {} /\ events = <<>> /\ executorThrew = {}
    /\ fileOpsThisRequest = {} /\ filesCreatedThisRequest = {} /\ newFileOpsThisTurn = {}
    /\ dryRun \in BOOLEAN
    /\ context = NoContext /\ executorLog = <<>> /\ previousMessages = <<>>
    /\ pc = "concurrent"
    /\ runs = [p \in Callers |-> NotCalled]

\* processRequest from its call to the first await: the prompt is pushed
CallProcessRequest(p) ==
    /\ runs[p].pc = "not-called"
    /\ history' = PushToHistory(history, Message("user", PromptOf(p)))
    /\ runs' = [runs EXCEPT ![p] = EnterTurn(@, history')]
    /\ UNCHANGED <<pc, turnCount, modelCalls, validatedHistory, turnLocals, execLog,
                   finalResponse, hasExecutedTools, verifierRuns, dryRun,
                   earlierPaths, prevTurnTools, requests, thrown, warned, events,
                   executorThrew, fileOpLocals, context, executorLog,
                   previousMessages>>

\* from the return of sendMessage to the next await: the assistant message is
\* pushed; in a dry run the results are made up and pushed without an await
\* in between, otherwise the for-loop awaits the first executor
ModelAnswers(p) ==
    /\ runs[p].pc = "awaiting"
    /\ \E response \in ResponsesTo(p, runs[p].turnCount), rnd \in TurnDraws :
         LET e == injectReadBeforeWriteBlocks(response.content, rnd, {})
             pushed == PushToHistory(history, AssistantMessage(e.contentBlocks))
             answered == [runs[p] EXCEPT !.stopReason = response.stopReason,
                                         !.toolUses = e.toolUses,
                                         !.toolResults = <<>>]
         IN  IF Len(e.toolUses) = 0
             THEN /\ history' = pushed
                  /\ runs' = [runs EXCEPT ![p] = [answered EXCEPT !.pc = "done"]]
             ELSE IF UsesExecutors(dryRun)
             THEN /\ history' = pushed
                  /\ runs' = [runs EXCEPT ![p] = [answered EXCEPT !.pc = "executing"]]
             ELSE /\ history' = PushToHistory(pushed,
                                    Message("user", DryRunResults(e.toolUses)))
                  /\ runs' = [runs EXCEPT ![p] =
                                 EnterTurn([answered EXCEPT
                                               !.toolResults = DryRunResults(e.toolUses),
                                               !.pc = AfterToolResults(response.stopReason)],
                                           history')]
    /\ UNCHANGED <<pc, turnCount, modelCalls, validatedHistory, turnLocals, execLog,
                   finalResponse, hasExecutedTools, verifierRuns, dryRun,
                   earlierPaths, prevTurnTools, requests, thrown, warned, events,
                   executorThrew, fileOpLocals, context, executorLog,
                   previousMessages>>

\* await this.toolRunner.executeTools([toolUse]) returns inside the for-loop
ExecutorReturns(p) ==
    /\ runs[p].pc = "executing"
    /\ Len(runs[p].toolResults) < Len(runs[p].toolUses)
    /\ LET toolUse == runs[p].toolUses[Len(runs[p].toolResults) + 1] IN
         runs' = [runs EXCEPT ![p].toolResults = @ \o executeTools(<<toolUse>>, FALSE)]
    /\ UNCHANGED <<history, pc, turnCount, modelCalls, validatedHistory, turnLocals,
                   execLog, finalResponse, hasExecutedTools, verifierRuns, dryRun,
                   earlierPaths, prevTurnTools, requests, thrown, warned, events,
                   executorThrew, fileOpLocals, context, executorLog,
                   previousMessages>>

\* await this.checkMissingFileReferences(...) returns: the results are pushed
\* and the next turn starts
PushToolResults(p) ==
    /\ runs[p].pc = "executing"
    /\ Len(runs[p].toolResults) = Len(runs[p].toolUses)
    /\ history' = PushToHistory(history, Message("user", runs[p].toolResults))
    /\ runs' = [runs EXCEPT ![p] =
                   EnterTurn([@ EXCEPT !.pc = AfterToolResults(runs[p].stopReason)],
                             history')]
    /\ UNCHANGED <<pc, turnCount, modelCalls, validatedHistory, turnLocals, execLog,
                   finalResponse, hasExecutedTools, verifierRuns, dryRun,
                   earlierPaths, prevTurnTools, requests, thrown, warned, events,
                   executorThrew, fileOpLocals, context, executorLog,
                   previousMessages>>

SomeCall == \E p \in Callers : CallProcessRequest(p)
SomeAnswer == \E p \in Callers : ModelAnswers(p)
SomeExecutorReturns == \E p \in Callers : ExecutorReturns(p)
SomePush == \E p \in Callers : PushToolResults(p)

NextConcurrent == SomeCall \/ SomeAnswer \/ SomeExecutorReturns \/ SomePush

SpecConcurrent == InitConcurrent /\ [][NextConcurrent]_vars

----------------------------------------------------------------------------
(* Properties *)

IsRead(b, P) == b.type = "tool_use" /\ b.name = READ_TOOL /\ b.input.path = P
IsEdit(b) == b.type = "tool_use" /\ b.name = "either-line-replace"
IsCreate(b) == b.type = "tool_use" /\ b.name = "either-write"
IsInjected(b) == b.type = "tool_use" /\ b.id \in EnforcerIds
EnforcerRan == pc # "enforcer-input"
EnforcerOutputs == {enforcedAssistantBlocks, toolUses}
PathValues == {PathA, PathB, Str(""), Num7, Undefined}

\* a read of the edit's path right before position k, or somewhere before that
EditHasReadBefore(seq, k) ==
    LET P == seq[k].input.path IN
    \/ k > 1 /\ IsRead(seq[k - 1], P)
    \/ \E j \in 1..(k - 2) : IsRead(seq[j], P)

\* edits of the model's response whose path no earlier block of the response
\* read (an earlier edit of the same path brings a read of it)
UnreadEdits ==
    {i \in 1..Len(rawContent) :
        /\ IsEdit(rawContent[i])
        /\ IsNonEmptyString(rawContent[i].input.path)
        /\ \A j \in 1..(i - 1) :
              /\ ~IsRead(rawContent[j], rawContent[i].input.path)
              /\ ~(IsEdit(rawContent[j]) /\ rawContent[j].input.path = rawContent[i].input.path)}

\* C1: a request makes at most MAX_AGENT_TURNS model calls; the turn counter is
\* 0 when a request starts and goes up by exactly one per model call
C1_TurnBound ==
    /\ [](/\ modelCalls <= MAX_AGENT_TURNS
          /\ turnCount <= MAX_AGENT_TURNS
          /\ modelCalls <= turnCount
          /\ pc \in {"awaiting", "executing"} => modelCalls = turnCount)
    /\ [][requests' # requests => turnCount' = 0 /\ modelCalls' = 0]_vars
    /\ [][(requests' = requests /\ modelCalls' # modelCalls)
            => modelCalls' = modelCalls + 1 /\ turnCount' = modelCalls']_vars
    /\ [][(requests' = requests /\ turnCount' # turnCount)
            => turnCount' = turnCount + 1 /\ turnCount = modelCalls]_vars

\* the second request of a behaviour ends at the ceiling, tools requested on its last turn
C1_Witness ==
    /\ requests = 2 /\ pc = "done"
    /\ modelCalls = MAX_AGENT_TURNS /\ turnCount = MAX_AGENT_TURNS
    /\ Len(toolUses) > 0 /\ prevTurnTools > 0

\* C2: after a model turn the loop goes on to the next model call exactly when
\* the turn had an executable invocation and the ceiling is not reached; a turn
\* without one ends the loop; the stop reason plays no part
C2_ContinueIffTools ==
    /\ [][(pc = "awaiting" /\ pc' \notin {"awaiting", "aborted"})
            => IF toolUses' = <<>> THEN pc' = "done" ELSE pc' = "executing"]_vars
    /\ [][(pc = "executing" /\ pc' # "executing") => pc' = "loop"]_vars
    /\ [][(pc = "loop" /\ pc' # "loop" /\ turnCount >= 1)
            => IF turnCount < MAX_AGENT_TURNS
               THEN pc' = "validated" /\ prevTurnTools > 0
               ELSE pc' = "done"]_vars
    /\ []((pc = "done" /\ modelCalls >= 1)
            => (toolUses = <<>> \/ turnCount = MAX_AGENT_TURNS))
    /\ []((pc \in {"validated", "awaiting"} /\ turnCount >= 2) => prevTurnTools > 0)

\* the model said end_turn and asked for tools: the next model call is under way
C2_Witness ==
    /\ pc = "awaiting" /\ turnCount = 2
    /\ stopReason = "end_turn" /\ prevTurnTools > 0

\* what the message after an assistant message must hold: one result per
\* tool_use block, same order, same ids
AnsweredBy(assistant, user) ==
    LET uses == SelectSeq(assistant.content, LAMBDA b : b.type = "tool_use") IN
    /\ user.role = "user" /\ user.isArray
    /\ Len(user.content) = Len(uses)
    /\ \A i \in 1..Len(uses) :
          /\ user.content[i].type = "tool_result"
          /\ user.content[i].tool_use_id = uses[i].id

\* C3: the tools of a turn run one at a time in list order, the results are
\* pushed in that order with matching ids, and every assistant message with
\* tool_use blocks is answered by the next message
C3_SequentialOrderedResults ==
    /\ Cardinality(inFlight) <= 1
    /\ \A i \in inFlight : i = Len(toolResults) + 1
    /\ Len(toolResults) <= Len(toolUses)
    /\ \A i \in 1..Len(toolResults) :
          /\ toolResults[i].type = "tool_result"
          /\ toolResults[i].tool_use_id = toolUses[i].id
    /\ \A i \in 1..Len(execLog) : execLog[i] = toolUses[i].id
    /\ \A m \in 1..Len(history) :
          (/\ history[m].role = "assistant" /\ history[m].isArray
           /\ \E i \in 1..Len(history[m].content) : history[m].content[i].type = "tool_use")
          => IF m = Len(history)
             THEN pc = "executing"
                  /\ SelectSeq(history[m].content, LAMBDA b : b.type = "tool_use") = toolUses
             ELSE AnsweredBy(history[m], history[m + 1])

\* a two-tool turn has run for real and its results are in the history
C3_Witness ==
    /\ ~dryRun /\ pc = "loop"
    /\ Len(toolUses) = 2 /\ Len(execLog) = 2
    /\ history[Len(history)].role = "user"
    /\ history[Len(history)].content = toolResults
    /\ Len(toolResults) = 2

\* C4: an edit of a path not read before it in the turn has a read of exactly
\* that path right before it, in the executable list and in the stored blocks
C4_ReadRightBeforeEdit ==
    EnforcerRan =>
      \A seq \in EnforcerOutputs :
        /\ \A k \in 1..Len(seq) :
              (IsEdit(seq[k]) /\ IsNonEmptyString(seq[k].input.path))
              => EditHasReadBefore(seq, k)
        /\ \A i \in UnreadEdits :
              \E k \in 2..Len(seq) :
                /\ seq[k].id = rawContent[i].id /\ IsEdit(seq[k])
                /\ seq[k].input.path = rawContent[i].input.path
                /\ IsRead(seq[k - 1], rawContent[i].input.path)
                /\ IsInjected(seq[k - 1])

\* an unread edit that is not the first block got its read
C4_Witness ==
    /\ pc = "enforcer-output"
    /\ \E i \in UnreadEdits : i > 1
    /\ \E k \in 2..Len(toolUses) : IsEdit(toolUses[k]) /\ IsInjected(toolUses[k - 1])

InjectedFor(seq, P) == {k \in 1..Len(seq) : IsInjected(seq[k]) /\ seq[k].input.path = P}

\* the response reads P before it first edits P
ReadBeforeFirstEdit(P) ==
    \E j \in 1..Len(rawContent) :
        /\ IsRead(rawContent[j], P)
        /\ \A i \in 1..(j - 1) : ~(IsEdit(rawContent[i]) /\ rawContent[i].input.path = P)

\* C5: no read is injected for a path the turn reads before its first edit of
\* it, and no path gets more than one injected read in a turn
C5_AtMostOneInjection ==
    EnforcerRan =>
      \A seq \in EnforcerOutputs : \A P \in PathValues :
        /\ Cardinality(InjectedFor(seq, P)) <= 1
        /\ ReadBeforeFirstEdit(P) => InjectedFor(seq, P) = {}

\* a read of a path, then an edit of it, and no injected read of it
C5_Witness ==
    /\ pc = "enforcer-output"
    /\ ReadBeforeFirstEdit(PathA)
    /\ \E i \in 2..Len(rawContent) : IsEdit(rawContent[i]) /\ rawContent[i].input.path = PathA
    /\ InjectedFor(enforcedAssistantBlocks, PathA) = {}

\* C6: what earlier turns of the request read or created does not count: an
\* edit of such a path with no read of it in its own turn gets its read
C6_FreshSetEachTurn ==
    (pc \in {"executing", "loop", "done"} /\ turnCount >= 2) =>
      \A seq \in EnforcerOutputs : \A k \in 1..Len(seq) :
        (/\ IsEdit(seq[k]) /\ IsNonEmptyString(seq[k].input.path)
         /\ seq[k].input.path.s \in earlierPaths
         /\ \A j \in 1..(k - 1) :
               /\ ~(IsRead(seq[j], seq[k].input.path) /\ ~IsInjected(seq[j]))
               /\ ~(IsEdit(seq[j]) /\ seq[j].input.path = seq[k].input.path))
        => /\ k > 1
           /\ IsRead(seq[k - 1], seq[k].input.path)
           /\ IsInjected(seq[k - 1])

\* a create of a in one turn, an edit of a alone in a later one
C6_Witness ==
    /\ pc = "executing" /\ turnCount >= 2
    /\ "a" \in earlierPaths
    /\ Len(rawContent) = 1 /\ IsEdit(rawContent[1])
    /\ Len(toolUses) = 2 /\ IsInjected(toolUses[1]) /\ IsEdit(toolUses[2])
    /\ \E m \in 1..Len(history) : \E i \in 1..Len(history[m].content) :
          IsCreate(history[m].content[i]) /\ history[m].content[i].input.path = PathA

WithoutInjected(seq) == SelectSeq(seq, LAMBDA b : ~IsInjected(b))

\* C8: the stored blocks without the injected reads are the blocks of the
\* response, in order (an edit may carry the added warning), and the executable
\* list is the tool_use blocks of the stored sequence, in order
C8_OrderPreserved ==
    EnforcerRan =>
      /\ WithoutInjected(enforcedAssistantBlocks) = responseContent
      /\ Len(responseContent) = Len(rawContent)
      /\ \A i \in 1..Len(rawContent) :
            [responseContent[i] EXCEPT !.input._enforcerWarning = Undefined] = rawContent[i]
      /\ toolUses = SelectSeq(enforcedAssistantBlocks, LAMBDA b : b.type = "tool_use")

\* a response of tool and non-tool blocks that got a read injected
C8_Witness ==
    /\ pc = "enforcer-output"
    /\ Len(rawContent) >= 3
    /\ Len(enforcedAssistantBlocks) > Len(rawContent)
    /\ \E i \in 1..Len(rawContent) : rawContent[i].type # "tool_use"
    /\ \E i \in 1..Len(rawContent) : IsCreate(rawContent[i])

\* C9: an edit without a needle stays in both outputs, with the warning added
\* to its input and nothing else changed
C9_MissingNeedleAnnotated ==
    EnforcerRan =>
      \A i \in 1..Len(rawContent) :
        (IsEdit(rawContent[i]) /\ ~Truthy(rawContent[i].input.needle))
        => \A seq \in EnforcerOutputs :
             /\ \E k \in 1..Len(seq) :
                   seq[k] = [rawContent[i] EXCEPT
                               !.input._enforcerWarning = Str(EnforcerWarningText)]
             /\ Cardinality({k \in 1..Len(seq) : seq[k].id = rawContent[i].id}) = 1

\* an edit with a path and no needle came out annotated
C9_Witness ==
    /\ pc = "enforcer-output"
    /\ \E k \in 1..Len(toolUses) :
          /\ IsEdit(toolUses[k])
          /\ toolUses[k].input.path = PathB
          /\ toolUses[k].input._enforcerWarning = Str(EnforcerWarningText)

\* C10: a model call is made only right after a validation of the whole
\* history as it is sent; a validation that raises aborts the request and no
\* model call follows
C10_ValidateBeforeEveryCall ==
    /\ [](pc = "awaiting"
            => /\ validatedHistory = history
               /\ \A idx \in 1..Len(history) :
                     /\ history[idx].isArray
                     /\ Len(history[idx].content) = 0
                          => (idx = Len(history) /\ history[idx].role = "assistant"))
    /\ [][modelCalls' = modelCalls + 1
            => pc = "validated" /\ validatedHistory = history /\ history' = history]_vars
    /\ [][(pc = "loop" /\ turnCount < MAX_AGENT_TURNS
            /\ \E idx \in 1..Len(history) :
                  \/ ~history[idx].isArray
                  \/ /\ Len(history[idx].content) = 0
                     /\ ~(idx = Len(history) /\ history[idx].role = "assistant"))
            => pc' = "aborted" /\ modelCalls' = modelCalls]_vars
    /\ [][(pc = "aborted" /\ requests' = requests)
            => modelCalls' = modelCalls /\ pc' \in {"aborted", "idle"}]_vars

\* a loaded history with a bad message: the request aborted before any model call
C10_Witness ==
    /\ pc = "aborted" /\ modelCalls = 0 /\ turnCount = 1
    /\ Len(history) = 3
    /\ validateConversationHistory(history).threw

----------------------------------------------------------------------------
(* Properties of the validator *)

ValidatorRan == pc = "validator-output"

NotAList(msg) == ~msg.isArray

\* zero blocks, and not the exempted final assistant message
EmptyNotExempt(h, idx) ==
    /\ h[idx].isArray /\ Len(h[idx].content) = 0
    /\ ~(idx = Len(h) /\ h[idx].role = "assistant")

ShapeViolations(h) == {idx \in 1..Len(h) : NotAList(h[idx]) \/ EmptyNotExempt(h, idx)}

LowestOf(S) == CHOOSE x \in S : \A y \in S : x <= y

\* an assistant message with a server_tool_use block that has no
\* web_search_tool_result block of the same id in the same message
HasUnpairedServerToolUse(msg) ==
    /\ msg.role = "assistant" /\ msg.isArray
    /\ \E i \in 1..Len(msg.content) :
          /\ msg.content[i].type = "server_tool_use"
          /\ \A j \in 1..Len(msg.content) :
                ~(/\ msg.content[j].type = "web_search_tool_result"
                  /\ msg.content[j].tool_use_id = msg.content[i].id)

\* C11 as stated: whenever some message has content that is not a list, the
\* validator raises and the error names the index of the lowest-indexed such
\* message and the type of its content
C11_Original ==
    (ValidatorRan /\ \E idx \in 1..Len(history) : NotAList(history[idx]))
    => LET low == LowestOf({idx \in 1..Len(history) : NotAList(history[idx])}) IN
       /\ thrown.kind = "validation"
       /\ thrown.idx = low - 1
       /\ thrown.got = history[low].typeofContent

\* C11 (amended): whenever some message has content that is not a list, the
\* validator raises, and the error names the index of the lowest-indexed
\* message that breaks either shape rule; when that message is one whose
\* content is not a list, the error also names the type found
C11_RaisesOnNonList ==
    (ValidatorRan /\ \E idx \in 1..Len(history) : NotAList(history[idx]))
    => LET low == LowestOf(ShapeViolations(history)) IN
       /\ thrown.kind = "validation"
       /\ thrown.idx = low - 1
       /\ validatedHistory = <<>>
       /\ IF NotAList(history[low])
          THEN /\ thrown.reason = "invalid content format"
               /\ thrown.got = history[low].typeofContent
          ELSE /\ thrown.reason = "empty content array"
               /\ thrown.got = ""

\* two messages with content that is not a list, of both roles and types, after
\* a sound one: the error names the first of them and its type
C11_Witness ==
    /\ ValidatorRan /\ Len(history) = 3
    /\ history[1].isArray /\ Len(history[1].content) > 0
    /\ NotAList(history[2]) /\ history[2].role = "assistant"
    /\ history[2].typeofContent = "string"
    /\ NotAList(history[3]) /\ history[3].typeofContent = "object"
    /\ thrown = ValidationError(1, "invalid content format", "string")

\* C12: the validator raises on a message with zero blocks unless it is the
\* last message and its role is assistant; in a history it accepts every
\* message is a non-empty list, except possibly a final assistant message
C12_EmptyContentRule ==
    ValidatorRan =>
      /\ (\E idx \in 1..Len(history) : EmptyNotExempt(history, idx))
            => thrown.kind = "validation"
      /\ (\A idx \in 1..Len(history) :
              /\ history[idx].isArray
              /\ Len(history[idx].content) = 0
                   => (idx = Len(history) /\ history[idx].role = "assistant"))
            <=> thrown = NoError
      /\ thrown = NoError <=> validatedHistory = history

\* a history ending in an empty assistant message is accepted
C12_Witness ==
    /\ ValidatorRan /\ Len(history) = 3
    /\ history[3].role = "assistant" /\ history[3].isArray
    /\ Len(history[3].content) = 0
    /\ thrown = NoError /\ validatedHistory = history

UnpairedIn(h) == {idx \in 1..Len(h) : HasUnpairedServerToolUse(h[idx])}

\* C13: an assistant message with an unpaired server_tool_use block only makes
\* the validator log a warning: when no message breaks a shape rule the
\* validation does not raise and the model call follows; a validation error is
\* never about such a block
C13_UnpairedOnlyWarns ==
    /\ (pc \in {"validated", "awaiting"})
          => /\ thrown = NoError
             /\ warned = {idx - 1 : idx \in UnpairedIn(history)}
    /\ pc = "validated" => ENABLED SendMessage
    /\ (pc = "aborted" /\ thrown.kind = "validation")
          => /\ thrown.idx + 1 \in ShapeViolations(history)
             /\ thrown.reason \in {"invalid content format", "empty content array"}

\* the history on its way to the model holds an unpaired server_tool_use, and
\* the warning was logged
C13_Witness ==
    /\ pc = "awaiting"
    /\ UnpairedIn(history) # {}
    /\ warned # {}

\* C14 as stated: in every history sent to the model each server_tool_use
\* block of an assistant message has a web_search_tool_result block with the
\* same id in the same message
C14_ServerToolUsesPaired ==
    pc = "awaiting" => UnpairedIn(history) = {}

----------------------------------------------------------------------------
(* Properties of the turn loop: failures, termination, verification, dry run *)

LastMessage == history[Len(history)]

\* results in seq that answer invocation id
ResultsFor(seq, id) == {i \in 1..Len(seq) : seq[i].type = "tool_result" /\ seq[i].tool_use_id = id}

\* C15: an executor that throws gives exactly one result, flagged is_error and
\* carrying the invocation's id; the request is not aborted, the rest of the
\* turn's tools still run, the error result goes into the history with the
\* others, and the loop goes on to its next turn: the model is called again
\* (only that call failing, or the turn ceiling, ends the request)
C15_ToolFailureIsAResult ==
    /\ \A id \in executorThrew :
          /\ Cardinality(ResultsFor(toolResults, id)) = 1
          /\ \A i \in ResultsFor(toolResults, id) : toolResults[i].is_error
    /\ (executorThrew # {} /\ pc # "idle")
          => /\ pc \in {"executing", "loop", "validated", "awaiting", "done", "aborted"}
             /\ pc # "aborted" => thrown = NoError
             /\ pc = "aborted"
                  => /\ thrown.kind = "model" /\ modelCalls = turnCount
                     /\ LastMessage = Message("user", toolResults)
             /\ pc = "executing"
                  => (ENABLED StartTool \/ ENABLED ToolReturns \/ ENABLED EndToolTurn)
             /\ pc # "executing"
                  => /\ Len(toolResults) = Len(toolUses)
                     /\ \A k \in 1..Len(execLog) : execLog[k] = toolUses[k].id
                     /\ Len(execLog) = Len(toolUses)
             /\ pc \in {"loop", "validated"}
                  => /\ LastMessage = Message("user", toolResults)
                     /\ ~validateConversationHistory(history).threw
             /\ pc = "loop"
                  => IF turnCount < MAX_AGENT_TURNS
                     THEN ENABLED BeginTurn ELSE ENABLED ExitAtCeiling
             /\ pc = "validated" => ENABLED SendMessage
             /\ pc = "done" => turnCount = MAX_AGENT_TURNS

\* the first of two tools threw, the second ran, and the model is asked again
C15_Witness ==
    /\ pc = "awaiting" /\ turnCount = 2
    /\ Len(toolUses) = 2
    /\ executorThrew = {toolUses[1].id}
    /\ history[Len(history)].role = "user"
    /\ history[Len(history)].content[1].is_error
    /\ ~history[Len(history)].content[2].is_error

Emitted(e) == \E i \in 1..Len(events) : events[i] = e

\* C16: when the model client fails the error leaves processRequest: no model
\* call and no tool execution of the request follows, and neither the
\* completed phase nor the request-complete callback is fired
C16_ModelFailurePropagates ==
    (thrown.kind = "model" /\ pc # "idle")
    => /\ pc = "aborted"
       /\ modelCalls = turnCount
       /\ inFlight = {}
       /\ ~Emitted(OnPhase("completed"))
       /\ ~Emitted(OnComplete)
       /\ ~ENABLED BeginTurn /\ ~ENABLED SendMessage /\ ~ENABLED ReceiveResponse
       /\ ~ENABLED StartTool /\ ~ENABLED ToolReturns /\ ~ENABLED EndToolTurn
       /\ ~ENABLED ExitAtCeiling

\* the model client failed on the second turn, after a turn that ran tools
C16_Witness ==
    /\ pc = "aborted" /\ thrown.kind = "model"
    /\ turnCount = 2 /\ modelCalls = 2
    /\ hasExecutedTools /\ ~dryRun
    /\ Emitted(OnPhase("code-writing"))
    /\ LastMessage.role = "user"

\* where the current request's prompt sits in the history
PromptIndex ==
    LowestOf({idx \in 1..Len(history) :
                /\ history[idx] = Message("user", UserText)
                /\ \A later \in (idx + 1)..Len(history) :
                      history[later] # Message("user", UserText)})

Placeholder == Message("assistant", <<TextBlock("...")>>)

\* C17: every message a request appends is a non-empty list; a response with
\* zero blocks is stored as the one-block placeholder; once the first
\* validation of a request has passed, the history keeps passing
C17_AppendedMessagesNonEmpty ==
    /\ (requests > 0 /\ pc # "idle")
          => \A idx \in PromptIndex..Len(history) :
                /\ history[idx].isArray
                /\ Len(history[idx].content) > 0
    /\ (pc = "done" /\ LastMessage.role = "assistant" /\ rawContent = <<>>)
          => /\ LastMessage = Placeholder
             /\ enforcedAssistantBlocks = <<>>
    /\ (pc # "idle" /\ validatedHistory # <<>>)
          => /\ ShapeViolations(history) = {}
             /\ ~validateConversationHistory(history).threw

\* a second request is on its way to the model with the placeholder of the
\* first request's empty response in the history
C17_Witness ==
    /\ requests = 2 /\ pc = "awaiting"
    /\ Len(history) = 3
    /\ history[2] = Placeholder
    /\ validatedHistory = history

RECURSIVE TextFrom(_)
\* the text of the assistant messages from message idx on, in order
TextFrom(idx) ==
    IF idx > Len(history) THEN <<>>
    ELSE (IF history[idx].role = "assistant" /\ history[idx].isArray
          THEN textBlocks(history[idx].content) ELSE <<>>)
         \o TextFrom(idx + 1)

\* the loop was left through its while test: the last turn asked for tools
EndedAtCeiling == pc = "done" /\ Len(toolUses) > 0

\* C18 as stated: when the loop ends at the turn ceiling processRequest
\* returns without raising, and what it returns is the text the model wrote in
\* the turns of the request
C18_CeilingReturnsPartialText ==
    EndedAtCeiling
    => /\ turnCount = MAX_AGENT_TURNS
       /\ thrown = NoError
       /\ Emitted(OnPhase("completed"))
       /\ finalResponse = TextFrom(PromptIndex)

\* C19 as stated: a request that executed a tool and is not a dry run has the
\* verifier run exactly once, when the loop ends, with its summary appended to
\* the response; otherwise the verifier never runs and nothing is appended
C19_VerifierOnceAtTermination ==
    /\ (pc \notin {"done", "idle"}) => verifierRuns = 0
    /\ pc = "done"
          => IF hasExecutedTools /\ ~dryRun
             THEN /\ verifierRuns = 1
                  /\ Len(finalResponse) > 0
                  /\ finalResponse[Len(finalResponse)] = VerificationSummary
             ELSE /\ verifierRuns = 0
                  /\ \A i \in 1..Len(finalResponse) : finalResponse[i] # VerificationSummary

IsDryRunResult(r, toolUse) ==
    /\ r.type = "tool_result" /\ r.tool_use_id = toolUse.id /\ ~r.is_error
    /\ r.text = "[DRY RUN] Would execute: " \o toolUse.name

\* C20: in dry-run mode no executor runs: every executable invocation of a turn
\* gets one synthesized informational result with its id, in invocation
\* order; no file-operation, tool-start or tool-end event is fired and no
\* verification runs
C20_DryRunHasNoEffects ==
    (dryRun /\ pc # "idle")
    => /\ execLog = <<>> /\ inFlight = {} /\ executorThrew = {}
       /\ ~ENABLED StartTool /\ ~ENABLED ToolReturns
       /\ \A i \in 1..Len(events) :
             events[i][1] \notin {"onFileOperation", "onToolStart", "onToolEnd"}
       /\ fileOpsThisRequest = {} /\ filesCreatedThisRequest = {}
       /\ verifierRuns = 0
       /\ \A i \in 1..Len(finalResponse) : finalResponse[i] # VerificationSummary
       /\ (pc \in {"executing", "loop"} /\ turnCount >= 1)
             => /\ Len(toolResults) = Len(toolUses)
                /\ \A i \in 1..Len(toolUses) : IsDryRunResult(toolResults[i], toolUses[i])
       /\ \A m \in 2..Len(history) :
             (m > PromptIndex /\ history[m].role = "user")
             => LET uses == SelectSeq(history[m - 1].content, LAMBDA b : b.type = "tool_use") IN
                /\ Len(history[m].content) = Len(uses)
                /\ \A i \in 1..Len(uses) : IsDryRunResult(history[m].content[i], uses[i])

\* a dry-run request whose first turn asked for an edit (two invocations with
\* the injected read) has ended: results synthesized, nothing verified
C20_Witness ==
    /\ dryRun /\ pc = "done" /\ ~EndedAtCeiling
    /\ hasExecutedTools /\ turnCount = 2
    /\ verifierRuns = 0
    /\ Len(history[PromptIndex + 2].content) = 2
    /\ Emitted(OnPhase("code-writing")) /\ Emitted(OnPhase("completed"))

----------------------------------------------------------------------------
(* Phases and content events of a request *)

\* the run whose caller supplied every callback
Observed == runs[CallbackNames]

\* the arguments of the onPhase calls, in order
Phases(evs) ==
    LET calls == SelectSeq(evs, LAMBDA e : e[1] = "onPhase")
    IN  [k \in 1..Len(calls) |-> calls[k][2]]

\* the turns of a run that executed tools
ToolTurns(run) == {k \in 1..Len(run.log) : Len(run.log[k].toolUses) > 0}

Repeat(x, n) == [k \in 1..n |-> x]

\* C21: a request with at least one tool-executing turn emits exactly the
\* phases thinking, reasoning, code-writing once per tool-executing turn,
\* building, completed
C21_PhaseSequence ==
    (pc = "runs" /\ Observed.status = "done" /\ ToolTurns(Observed) # {}) =>
        Phases(Observed.events) =
            <<"thinking", "reasoning">>
            \o Repeat("code-writing", Cardinality(ToolTurns(Observed)))
            \o <<"building", "completed">>

\* the invocations of a response the loop executes
HasToolUse(content) == \E i \in 1..Len(content) : content[i].type = "tool_use"

\* the first turn streamed text and asked for no tool, and the request returned
TextOnlyRequest(run) ==
    /\ run.status = "done"
    /\ Len(run.log) = 1
    /\ Len(TextDeltas(run.log[1].content)) > 0
    /\ ~HasToolUse(run.log[1].content)

\* C22: a request whose first turn streams text and asks for no tool emits
\* exactly thinking then completed, and returns that turn's text with no
\* verification summary
C22_TextOnlyRequest ==
    (pc = "runs" /\ TextOnlyRequest(Observed)) =>
        /\ Phases(Observed.events) = <<"thinking", "completed">>
        /\ Observed.finalResponse = textBlocks(Observed.log[1].content)
        /\ Observed.verifierRuns = 0

C22_Witness ==
    /\ pc = "runs" /\ ~dryRun
    /\ TextOnlyRequest(Observed)
    /\ Observed.finalResponse = <<"t">>
    /\ Observed.events = <<OnPhase("thinking"), OnDelta("t"), OnPhase("completed"),
                           OnComplete>>

PhaseRank(phase) ==
    CASE phase = "thinking" -> 1
      [] phase = "reasoning" -> 2
      [] phase = "code-writing" -> 3
      [] phase = "building" -> 4
      [] phase = "completed" -> 5

\* C23: the phases passed to onPhase within one request never step back in
\* the order thinking < reasoning < code-writing < building < completed
C23_PhasesMoveForward ==
    pc = "runs" =>
        LET ph == Phases(Observed.events) IN
        \A i, j \in 1..Len(ph) : i < j => PhaseRank(ph[i]) <= PhaseRank(ph[j])

\* the phase announced last before position k of evs ("" when none was)
PhaseAt(evs, k) ==
    LET before == {i \in 1..(k - 1) : evs[i][1] = "onPhase"}
    IN  IF before = {} THEN ""
        ELSE evs[CHOOSE i \in before : \A j \in before : j <= i][2]

\* the next phase announced after position k of evs ("" when none is)
PhaseAfter(evs, k) ==
    LET after == {i \in (k + 1)..Len(evs) : evs[i][1] = "onPhase"}
    IN  IF after = {} THEN ""
        ELSE evs[CHOOSE i \in after : \A j \in after : i <= j][2]

\* C24: thinking-complete fires in the thinking phase, right before reasoning
\* is announced; reasoning chunks fire in the reasoning phase; text deltas
\* fire in the building phase (or, for a tool-free first turn, in the
\* thinking phase); nothing fires after completed
C24_ContentInsideItsPhase ==
    pc = "runs" =>
        LET evs == Observed.events IN
        \A k \in 1..Len(evs) :
            /\ evs[k][1] = "onThinkingComplete" =>
                  PhaseAt(evs, k) = "thinking"
                  /\ (Observed.status = "done" => PhaseAfter(evs, k) = "reasoning")
            /\ evs[k][1] = "onReasoning" => PhaseAt(evs, k) = "reasoning"
            /\ evs[k][1] = "onDelta" =>
                  \/ PhaseAt(evs, k) = "building"
                  \/ PhaseAt(evs, k) = "thinking" /\ Len(Observed.log) = 1
            /\ evs[k][1] \in {"onThinkingComplete", "onReasoning", "onDelta"} =>
                  PhaseAt(evs, k) # "completed"

----------------------------------------------------------------------------
(* Events of the tool loop *)

\* the events of the current turn's tool loop: what was fired since the last
\* code-writing phase was announced
TurnEvents ==
    LET marks == {k \in 1..Len(events) : events[k] = OnPhase("code-writing")}
        last == CHOOSE k \in marks : \A j \in marks : j <= k
    IN  SubSeq(events, last + 1, Len(events))

FinishedState(startingState) == IF startingState = "creating" THEN "created" ELSE "edited"

\* e is the start event the claim gives the invocation
StartsInvocation(e, toolUse) ==
    IF Truthy(toolUse.input.path)
    THEN e[1] = "onFileOperation" /\ e[2] \in {"creating", "editing"}
         /\ e[3] = toolUse.input.path.s
    ELSE e = OnToolStart(toolUse)

\* e is the finish event that goes with the start event s
FinishesInvocation(e, s, toolUse) ==
    IF Truthy(toolUse.input.path)
    THEN e = <<"onFileOperation", FinishedState(s[2]), toolUse.input.path.s>>
    ELSE e = OnToolEnd(toolUse)

\* C25 as stated: every invocation the for-loop has started has its start
\* event, and every one that returned has its finish event after it, whatever
\* the tool and whether or not the path was touched before
C25_Original ==
    (pc = "executing" /\ ~dryRun) =>
        /\ Len(TurnEvents) = started + Len(execLog)
        /\ \A i \in 1..started :
              /\ StartsInvocation(TurnEvents[2 * i - 1], toolUses[i])
              /\ i <= Len(execLog) =>
                    FinishesInvocation(TurnEvents[2 * i], TurnEvents[2 * i - 1],
                                       toolUses[i])

IsWriteOrEdit(b) ==
    b.type = "tool_use" /\ b.name \in {"either-write", "either-line-replace"}

\* an earlier either-write or either-line-replace of the request has the path
\* of the i-th invocation of this turn
WrittenBefore(i) ==
    \/ \E j \in 1..(i - 1) :
          IsWriteOrEdit(toolUses[j]) /\ toolUses[j].input.path = toolUses[i].input.path
    \/ \E m \in (PromptIndex + 1)..(Len(history) - 1) :
          \E j \in 1..Len(history[m].content) :
              /\ IsWriteOrEdit(history[m].content[j])
              /\ history[m].content[j].input.path = toolUses[i].input.path

\* the invocations that announce themselves: those without a path, and the
\* first write or edit of a path in the request
Announced(i) ==
    \/ ~Truthy(toolUses[i].input.path)
    \/ IsWriteOrEdit(toolUses[i]) /\ ~WrittenBefore(i)

StartLike(e) ==
    \/ e[1] = "onToolStart"
    \/ e[1] = "onFileOperation" /\ e[2] \in {"creating", "editing"}

Positions(seq, Test(_)) == SelectSeq([k \in 1..Len(seq) |-> k], LAMBDA k : Test(seq[k]))

\* C25 (amended): the start events of a turn are, in order, those of the
\* invocations without a path (tool-start) and of the first write or edit of
\* each path in the request (file-operation starting); each of them is
\* followed at once by its finish event when its execution has returned, and
\* tool-end is fired for the invocations without a path only; a read with a
\* path and a repeated operation on a path get no start event
C25_FirstOperationsBracketed ==
    (pc = "executing" /\ ~dryRun) =>
        LET te == TurnEvents
            announced == SelectSeq([i \in 1..started |-> i], Announced)
            startPos == Positions(te, StartLike)
            returnedNoPath == SelectSeq([i \in 1..Len(execLog) |-> i],
                                        LAMBDA i : ~Truthy(toolUses[i].input.path))
        IN  /\ Len(startPos) = Len(announced)
            /\ \A n \in 1..Len(announced) :
                  /\ StartsInvocation(te[startPos[n]], toolUses[announced[n]])
                  /\ announced[n] <= Len(execLog) =>
                        /\ startPos[n] < Len(te)
                        /\ FinishesInvocation(te[startPos[n] + 1], te[startPos[n]],
                                              toolUses[announced[n]])
            /\ SelectSeq(te, LAMBDA e : e[1] = "onToolEnd")
                  = [n \in 1..Len(returnedNoPath) |-> OnToolEnd(toolUses[returnedNoPath[n]])]

\* a create, the injected read and an edit of the same file have all been
\* executed, and only the create was announced
C25_Witness ==
    /\ pc = "executing" /\ ~dryRun
    /\ Len(toolUses) = 3 /\ Len(execLog) = 3
    /\ IsCreate(toolUses[1]) /\ IsInjected(toolUses[2]) /\ IsEdit(toolUses[3])
    /\ WrittenBefore(3)
    /\ Len(Positions(TurnEvents, StartLike)) = 1
    /\ TurnEvents[1] = OnFileOperation("creating", PathA)
    /\ TurnEvents[2] = OnFileOperation("created", PathA)

----------------------------------------------------------------------------
(* The missing-reference check in the loop *)

\* the reference names one of the files, the way the check compares them
ResolvesIn(ref, files) ==
    IF ref.tag = "import" THEN ImportExists(ref.file, files)
    ELSE ~HtmlRefMissing(ref, files)

\* the files either-write created successfully in the turns before turn k
CreatedBeforeTurn(run, k) ==
    UNION {{run.log[j].toolUses[i].input.path.s :
              i \in {n \in 1..Len(run.log[j].toolUses) :
                  /\ run.log[j].toolUses[n].name = "either-write"
                  /\ Truthy(run.log[j].toolUses[n].input.path)
                  /\ n <= Len(run.log[j].rawResults)
                  /\ ~run.log[j].rawResults[n].is_error}} : j \in 1..(k - 1)}

\* C26: no reference flagged in a turn names a file that was successfully
\* created in an earlier turn of the same request
C26_EarlierFilesNotFlagged ==
    pc = "runs" =>
        \A k \in 1..Len(Observed.log) :
            \A m \in 1..Len(Observed.log[k].missingRefs) :
                ~ResolvesIn(Observed.log[k].missingRefs[m], CreatedBeforeTurn(Observed, k))

Contains(str, sub) ==
    \E i \in 1..(Len(str) - Len(sub) + 1) : SubSeq(str, i, i + Len(sub) - 1) = sub

\* the turns of the run in which the check found a missing reference
WarnedTurns(run) == {k \in 1..Len(run.log) : Len(run.log[k].missingRefs) > 0}

\* C27: in a turn where the check finds a missing reference, the results are
\* the executors' results, same number, order, ids and is_error flags, all but
\* the last untouched and the last with the warning, naming every missing
\* file, appended to its content; no error is raised, and the next model call
\* is sent a history that ends with these results
C27_WarningIsAdvisory ==
    pc = "runs" =>
        \A k \in WarnedTurns(Observed) :
            LET t == Observed.log[k]
                n == Len(t.rawResults)
            IN  /\ n > 0 /\ Len(t.toolResults) = n
                /\ \A i \in 1..(n - 1) : t.toolResults[i] = t.rawResults[i]
                /\ t.toolResults[n].tool_use_id = t.rawResults[n].tool_use_id
                /\ t.toolResults[n].is_error = t.rawResults[n].is_error
                /\ t.toolResults[n] =
                       [t.rawResults[n] EXCEPT !.text = @ \o WarningMessage(t.missingRefs)]
                /\ \A m \in 1..Len(t.missingRefs) :
                       Contains(t.toolResults[n].text, t.missingRefs[m].file)
                /\ IF k < Len(Observed.log)
                   THEN LET sent == Observed.log[k + 1].sent
                        IN  sent[Len(sent)] = Message("user", t.toolResults)
                   ELSE /\ Observed.thrown = NoError
                        /\ Observed.history[Len(Observed.history)] = Message("user", t.toolResults)
                        /\ \/ Observed.status = "running"
                           \/ /\ Observed.status = "done"
                              /\ ~WithinTurnLimit(Observed.turnCount)

\* the warning was put on a search's result, the HTML write's result before it
\* is as the executor returned it, and the model answered it in another turn
C27_Witness ==
    /\ pc = "runs" /\ ~dryRun
    /\ \E k \in WarnedTurns(Observed) :
          /\ Len(Observed.log[k].rawResults) = 2
          /\ k < Len(Observed.log)
          /\ Len(Observed.log[k + 1].content) > 0
    /\ Observed.status = "done"

----------------------------------------------------------------------------
(* Runs that differ only in the callbacks supplied *)

\* what a run computes: the model calls it made (the history sent in each),
\* the invocations it executed and their results, the history it leaves, and
\* how it ended
Computation(run) ==
    [status |-> run.status,
     thrown |-> run.thrown,
     finalResponse |-> run.finalResponse,
     history |-> run.history,
     turnCount |-> run.turnCount,
     verifierRuns |-> run.verifierRuns,
     turns |-> [k \in 1..Len(run.log) |->
                  [sent |-> run.log[k].sent,
                   toolUses |-> run.log[k].toolUses,
                   rawResults |-> run.log[k].rawResults,
                   toolResults |-> run.log[k].toolResults]]]

\* C28: given the same model responses and tool outcomes, the run with some
\* callbacks and the run with none compute what the run with all of them does
C28_CallbacksDoNotInterfere ==
    pc = "runs" =>
        \A cbs \in CallbackSets : Computation(runs[cbs]) = Computation(Observed)

\* a finished request with a tool turn and a non-empty response, of which the
\* three callers saw three different event sequences
C28_Witness ==
    /\ pc = "runs" /\ ~dryRun
    /\ Observed.status = "done"
    /\ ToolTurns(Observed) # {}
    /\ Observed.finalResponse # <<>>
    /\ runs[{}].events = <<>>
    /\ Observed.events # <<>>
    /\ runs[CallbackNames \ {"onPhase"}].events \notin {<<>>, Observed.events}

----------------------------------------------------------------------------
(* The history during a request *)

IsPrefixOf(shorter, longer) ==
    Len(shorter) <= Len(longer) /\ SubSeq(longer, 1, Len(shorter)) = shorter

\* the step is a reset or a load, the two operations that replace the history
ResetsOrLoads == pc \in {"idle", "done", "aborted"} /\ pc' = "idle"

\* C29: every step of processRequest, from the push of the prompt to the
\* return or the throw, leaves the history it found as a prefix of the history
\* it leaves, so the history at the start of the request stays an unchanged
\* prefix; the history is replaced only by a step of reset or
\* loadConversationHistory
C29_HistoryOnlyGrows ==
    [][~ResetsOrLoads => IsPrefixOf(history, history')]_vars

\* a request that started on a loaded history has pushed its prompt, an
\* answer and a turn's tool results after it
C29_Witness ==
    /\ pc \notin {"idle", "done", "aborted"}
    /\ PromptIndex > 1
    /\ Len(history) >= PromptIndex + 2
    /\ LastMessage.role = "user"

----------------------------------------------------------------------------
(* The database handle in the execution context *)

\* the calls made after a call of DatabaseAgent.setDatabaseContext
AfterSetDatabaseContext ==
    {j \in 1..Len(executorLog) :
        \E i \in 1..(j - 1) : executorLog[i].call = "setDatabaseContext"}

\* C30: once DatabaseAgent.setDatabaseContext has been called, context.db is
\* the agent's database handle, and no later deploy-smart-contract or
\* generate-contract-code execution goes to the HTTP API
C30_DirectPathAfterSetContext ==
    pc = "database" =>
        /\ (\E i \in 1..Len(executorLog) : executorLog[i].call = "setDatabaseContext")
              => context.db = DatabaseClient
        /\ \A j \in AfterSetDatabaseContext : executorLog[j].path # "http"

----------------------------------------------------------------------------
(* Termination of a request *)

InFlightRequest == pc \in {"loop", "validated", "awaiting", "executing"}

\* the steps of processRequest between its call and its return or throw
RequestStep ==
    \/ BeginTurn \/ ExitAtCeiling \/ SendMessage \/ ModelFails \/ ReceiveResponse
    \/ StartTool \/ ToolReturns \/ EndToolTurn

\* what is left of the request: the turns the ceiling still allows, the
\* position in the while body, and the work left in the for-loop
Measure ==
    <<MAX_AGENT_TURNS - turnCount,
      CASE pc = "validated" -> 3
        [] pc = "awaiting" -> 2
        [] pc = "executing" -> 1
        [] OTHER -> 0,
      IF pc = "executing"
      THEN 2 * (Len(toolUses) - started) + Cardinality(inFlight)
      ELSE 0>>

LexLess(a, b) ==
    \/ a[1] < b[1]
    \/ a[1] = b[1] /\ a[2] < b[2]
    \/ a[1] = b[1] /\ a[2] = b[2] /\ a[3] < b[3]

\* C31: a request in flight can always take a step (given that the model
\* call and the tool execution it waits for return), and every step that
\* leaves it in flight lowers a measure that cannot fall below <<0, 0, 0>>:
\* the request finishes after finitely many steps, whatever the model answers
C31_RequestTerminates ==
    InFlightRequest =>
        /\ \A k \in 1..3 : Measure[k] >= 0
        /\ ENABLED RequestStep
        /\ ~ENABLED (RequestStep /\ InFlightRequest' /\ ~LexLess(Measure', Measure))

\* the model asked for tools on every turn and the request ended at the ceiling
C31_Witness ==
    /\ pc = "done"
    /\ turnCount = MAX_AGENT_TURNS
    /\ LastMessage.role = "user"
    /\ hasExecutedTools

----------------------------------------------------------------------------
(* The enforcer's warning *)

HasEnforcerWarning(b) ==
    b.type = "tool_use" /\ b.input._enforcerWarning = Str(EnforcerWarningText)

\* C32: an edit carries the warning only if the enforcer injected a read of
\* the edit's path into the same response
C32_WarningMeansInjectedRead ==
    EnforcerRan =>
        \A k \in 1..Len(toolUses) :
            (IsEdit(toolUses[k]) /\ HasEnforcerWarning(toolUses[k]))
            => \E j \in 1..Len(toolUses) :
                  /\ IsInjected(toolUses[j])
                  /\ toolUses[j].input.path = toolUses[k].input.path

----------------------------------------------------------------------------
(* The text of the turns that follow tool execution *)

RECURSIVE TotalLen(_)
TotalLen(texts) == IF texts = <<>> THEN 0 ELSE Len(Head(texts)) + TotalLen(Tail(texts))

\* the characters streamed as text deltas in turns from..Len(run.log)
RECURSIVE StreamedFrom(_, _)
StreamedFrom(run, from) ==
    IF from > Len(run.log) THEN 0
    ELSE TotalLen(TextDeltas(run.log[from].content)) + StreamedFrom(run, from + 1)

\* the characters handed to onDelta after position k of the events
DeliveredAfter(evs, k) ==
    LET deltas == SelectSeq(SubSeq(evs, k + 1, Len(evs)), LAMBDA e : e[1] = "onDelta")
    IN  TotalLen([i \in 1..Len(deltas) |-> deltas[i][2]])

\* where the n-th code-writing phase is announced
NthCodeWriting(evs, n) ==
    CHOOSE k \in 1..Len(evs) :
        /\ evs[k] = OnPhase("code-writing")
        /\ Cardinality({j \in 1..k : evs[j] = OnPhase("code-writing")}) = n

\* C33: when completed is emitted, the text streamed in the turns after a
\* tool-executing turn has been handed to onDelta since that turn: for every
\* turn k that follows a tool turn, what onDelta received after turn k - 1
\* announced code-writing is no less than what turns k and later streamed
C33_SummaryTextDelivered ==
    (pc = "runs" /\ Observed.status = "done") =>
        \A k \in 2..Len(Observed.log) :
            DeliveredAfter(Observed.events, NthCodeWriting(Observed.events, k - 1))
                >= StreamedFrom(Observed, k)

----------------------------------------------------------------------------
(* Balance of the file-operation events *)

\* how many of the first k events are the file-operation event of that state
\* and path
CountUpTo(k, state, path) ==
    Cardinality({j \in 1..k : events[j] = <<"onFileOperation", state, path>>})

\* C34: in the events of a request, every finished event of a path comes after
\* a starting event of the matching kind for that path that no earlier
\* finished event has closed
C34_FileOperationsBalanced ==
    \A k \in 1..Len(events) :
        (events[k][1] = "onFileOperation" /\ events[k][2] \in {"created", "edited"})
        => LET starting == IF events[k][2] = "created" THEN "creating" ELSE "editing"
           IN  CountUpTo(k, events[k][2], events[k][3])
                   <= CountUpTo(k, starting, events[k][3])

----------------------------------------------------------------------------
(* Where the validator runs *)

HasEmptyMessage(h) == \E idx \in 1..Len(h) : h[idx].isArray /\ Len(h[idx].content) = 0

\* the step is a run of validateConversationHistory inside processRequest
ValidatorRuns == pc = "loop" /\ pc' \in {"validated", "aborted"}

\* C35: whenever the validator runs in processRequest the last message of the
\* history has role user, and a run on a history that holds a message with
\* zero blocks, wherever it is, raises; such a message can only have been
\* loaded, and the run that meets it is the one of the first turn
C35_ValidatorSeesUserLast ==
    [][ValidatorRuns =>
          /\ Len(history) > 0
          /\ history[Len(history)].role = "user"
          /\ HasEmptyMessage(history) =>
                /\ pc' = "aborted"
                /\ thrown'.kind = "validation"
                /\ turnCount' = 1]_vars

\* the loaded history ended with an assistant message of zero blocks, and the
\* first validation of the request raised because of it
C35_Witness ==
    /\ pc = "aborted"
    /\ turnCount = 1
    /\ Len(history) = 3
    /\ history[2] = Message("assistant", <<>>)
    /\ history[3] = Message("user", UserText)
    /\ thrown.reason = "empty content array"

----------------------------------------------------------------------------
(* A validation failure on the first turn *)

\* the step is the call of processRequest up to the while loop
RequestStarts == pc \in {"idle", "done", "aborted"} /\ pc' = "loop"

\* the step is the first run of the validator in a request, and it raises
FirstValidationRaises == pc = "loop" /\ turnCount = 0 /\ pc' = "aborted"

\* C36: the call pushes the prompt onto the history it finds and does nothing
\* else that shows; when the first validation raises, which is the next step,
\* the history stays as it is (the prompt is not taken back), and no model
\* call, no tool execution and no callback has happened
C36_FirstTurnValidationFailure ==
    [][/\ RequestStarts =>
             /\ history' = Append(history, Message("user", UserText))
             /\ modelCalls' = 0 /\ events' = <<>>
             /\ started' = 0 /\ execLog' = <<>> /\ toolResults' = <<>>
       /\ FirstValidationRaises =>
             /\ thrown'.kind = "validation"
             /\ history' = history
             /\ history[Len(history)] = Message("user", UserText)
             /\ modelCalls' = 0 /\ events' = <<>>
             /\ started' = 0 /\ execLog' = <<>> /\ toolResults' = <<>>]_vars

\* the first validation raised on a loaded history with a message that is not
\* a list; the prompt is still the last message
C36_Witness ==
    /\ pc = "aborted"
    /\ thrown.kind = "validation"
    /\ thrown.reason = "invalid content format"
    /\ turnCount = 1
    /\ modelCalls = 0
    /\ Len(history) = 3
    /\ history[3] = Message("user", UserText)

----------------------------------------------------------------------------
(* Roles in the history *)

RolesAlternate(h) == \A i \in 1..(Len(h) - 1) : h[i].role # h[i + 1].role

\* C37: after requests that all returned, on a history that was empty at the
\* start, no two consecutive messages have the same role (the behaviours of
\* successive requests start empty and load nothing)
C37_RolesAlternate ==
    pc = "done" /\ thrown = NoError => RolesAlternate(history)

----------------------------------------------------------------------------
(* Stored messages loaded by the DatabaseAgent *)

Loaded == pc # "database-agent"

\* C38: every message the DatabaseAgent loads from the stored rows is a
\* non-empty list of blocks, and the request that follows is not aborted by
\* the history validation
C38_LoadedMessagesPassValidation ==
    Loaded =>
        /\ \A idx \in 1..Len(history) :
              history[idx].isArray /\ Len(history[idx].content) > 0
        /\ pc # "aborted"

----------------------------------------------------------------------------
(* The shared history under two calls in flight *)

ToolUseIds(content) ==
    LET uses == SelectSeq(content, LAMBDA b : b.type = "tool_use")
    IN  [i \in 1..Len(uses) |-> uses[i].id]

ToolResultIds(content) ==
    LET results == SelectSeq(content, LAMBDA b : b.type = "tool_result")
    IN  [i \in 1..Len(results) |-> results[i].tool_use_id]

\* the message after position i holds the results of the tool_use blocks at i
FollowedByItsResults(h, i) ==
    /\ h[i + 1].role = "user"
    /\ ToolResultIds(h[i + 1].content) = ToolUseIds(h[i].content)

ToolUsesPaired(h) ==
    \A i \in 1..(Len(h) - 1) :
        h[i].role = "assistant" /\ HasToolUse(h[i].content)
            => FollowedByItsResults(h, i)

====
